---------------------------- MODULE Spec2Model ----------------------------
(***************************************************************************)
(* A model of the Cameca (nano)SIMS reader of sims/sims.py: the stream     *)
(* opener (TransparentOpen), the format detector (SIMSReader.peek), the    *)
(* header decoder (SIMSReader.read_header with its sub-record decoders),   *)
(* the data-plane dispatch (SIMSReader.read_data) and SIMS.__init__, which *)
(* runs them in sequence.                                                  *)
(*                                                                         *)
(* A file is a zero-filled byte array of a given size with a few byte      *)
(* strings placed in it (file.items).  Every value the decoder reads is    *)
(* decoded from those bytes at the position the code's cursor has reached. *)
(***************************************************************************)
EXTENDS Integers, Sequences, FiniteSets, TLC

VARIABLES
    filename,    \* the argument of SIMS(filename): <<base, ext, ...>>, << >> = ''
    file,        \* the decompressed content behind filename: [size, items]
    pc,          \* position in SIMS.__init__
    fh,          \* self.fh: "unset", "open", "closed"
    fh_archive,  \* self.fh_archive: "unset", "None", "open", "closed"
    fhpos,       \* position of self.fh
    nread,       \* number of bytes the reader has taken from self.fh
    header,      \* self.header: a mapping from keys to values
    hdrBefore,   \* self.header as it was when the running stage was called
    bo,          \* self._bo
    data,        \* self.data / self._data_corr: what read_data stored
    exc,         \* the exception that left SIMS.__init__, "" when none
    stages,      \* the stages run so far, each with its outcome
    marks,       \* read_header's marker positions (its local *_pos variables)
    events,      \* read_header's decode steps, in order, with their cursor
    warns,       \* the warnings emitted
    clone,       \* the object s.copy() returned, NoCopy before
    emobj,       \* the simsobj handed to sims.utils.em_correct
    rkstate      \* sims.rkeys: the default arguments and the calls made

vars == <<filename, file, pc, fh, fh_archive, fhpos, nread, header, hdrBefore,
          bo, data, exc, stages, marks, events, warns, clone, emobj, rkstate>>

\* the state of the utilities that work on a finished object
utils == <<clone, emobj, rkstate>>

---------------------------------------------------------------------------
(* Generic helpers.                                                        *)

Min(a, b) == IF a < b THEN a ELSE b

Max(a, b) == IF a > b THEN a ELSE b

\* dict[k] = v
Put(h, k, v) == (k :> v) @@ h

Has(h, k) == k \in DOMAIN h

\* the empty dict
EmptyDict == [k \in {} |-> 0]

Zeros(n) == [i \in 1..n |-> 0]

---------------------------------------------------------------------------
(* Bytes of a file.                                                        *)

\* the byte at offset p (0-based) of the file: a placed byte, or 0
Byte(f, p) ==
    LET hit == {i \in DOMAIN f.items :
                   f.items[i].at <= p /\ p < f.items[i].at + Len(f.items[i].b)}
    IN  IF hit = {} THEN 0
        ELSE LET i == CHOOSE j \in hit : TRUE
             IN  f.items[i].b[p - f.items[i].at + 1]

\* bytes p .. p+n-1
Bytes(f, p, n) == [i \in 1..n |-> Byte(f, p + i - 1)]

\* struct.unpack('<i' / '>i'): four bytes as a signed 32-bit integer
SByte(x) == IF x >= 128 THEN x - 256 ELSE x

I32(order, b) ==
    IF order = "<"
    THEN b[1] + 256 * b[2] + 65536 * b[3] + 16777216 * SByte(b[4])
    ELSE b[4] + 256 * b[3] + 65536 * b[2] + 16777216 * SByte(b[1])

---------------------------------------------------------------------------
(* Byte strings.  A string is the sequence of its latin-1 codes.           *)

\* bytes.index(b'\x00'), or 0 when there is no null byte (1-based result)
RECURSIVE NullIndex(_, _)
NullIndex(s, i) ==
    IF i > Len(s) THEN 0
    ELSE IF s[i] = 0 THEN i
    ELSE NullIndex(s, i + 1)

\* the characters str.strip() removes
Whitespace == {9, 10, 11, 12, 13, 28, 29, 30, 31, 32, 133, 160}

RECURSIVE LStrip(_)
LStrip(s) ==
    IF s = << >> THEN s
    ELSE IF s[1] \in Whitespace THEN LStrip(Tail(s))
    ELSE s

RECURSIVE RStrip(_)
RStrip(s) ==
    IF s = << >> THEN s
    ELSE IF s[Len(s)] \in Whitespace THEN RStrip(SubSeq(s, 1, Len(s) - 1))
    ELSE s

Strip(s) == RStrip(LStrip(s))

\* SIMSReader._cleanup_string: cut at the first null byte, decode, strip
CleanupString(s) ==
    LET b == NullIndex(s, 1)
    IN  IF b = 0 THEN Strip(s) ELSE Strip(SubSeq(s, 1, b - 1))

\* str.lower() on latin-1 text
LowerChar(c) ==
    IF (c >= 65 /\ c <= 90) \/ (c >= 192 /\ c <= 222 /\ c # 215)
    THEN c + 32 ELSE c

Lower(s) == [i \in 1..Len(s) |-> LowerChar(s[i])]

\* str.endswith
EndsWith(s, suffix) ==
    /\ Len(suffix) <= Len(s)
    /\ SubSeq(s, Len(s) - Len(suffix) + 1, Len(s)) = suffix

\* the position (1-based) of the first character of s from i on that is in
\* seps, Len(s) + 1 when there is none
RECURSIVE NextSep(_, _, _)
NextSep(s, i, seps) ==
    IF i > Len(s) THEN Len(s) + 1
    ELSE IF s[i] \in seps THEN i
    ELSE NextSep(s, i + 1, seps)

\* str.split(sep): the parts between single separator characters
RECURSIVE SplitOn(_, _)
SplitOn(s, sep) ==
    LET j == NextSep(s, 1, {sep})
    IN  IF j > Len(s) THEN <<s>>
        ELSE <<SubSeq(s, 1, j - 1)>> \o SplitOn(SubSeq(s, j + 1, Len(s)), sep)

\* str.split(): the non-empty runs between whitespace
RECURSIVE SplitWS(_)
SplitWS(s) ==
    LET t == LStrip(s)
        j == NextSep(t, 1, Whitespace)
    IN  IF t = << >> THEN << >>
        ELSE <<SubSeq(t, 1, j - 1)>> \o SplitWS(SubSeq(t, j, Len(t)))

Digits == 48..57

\* int(x) succeeds: optional surrounding whitespace and sign, then digits
\* (no more than 9, which keeps the value in range)
IsInt(x) ==
    LET t == Strip(x)
        u == IF t # << >> /\ t[1] \in {43, 45} THEN Tail(t) ELSE t
    IN  /\ u # << >>
        /\ Len(u) <= 9
        /\ \A i \in 1..Len(u) : u[i] \in Digits

RECURSIVE DigitsValue(_, _)
DigitsValue(u, acc) ==
    IF u = << >> THEN acc ELSE DigitsValue(Tail(u), 10 * acc + (u[1] - 48))

ToInt(x) ==
    LET t == Strip(x)
        neg == t[1] = 45
        u == IF t[1] \in {43, 45} THEN Tail(t) ELSE t
    IN  IF neg THEN 0 - DigitsValue(u, 0) ELSE DigitsValue(u, 0)

\* 'N/A' in date
NA == <<78, 47, 65>>

Contains(s, sub) ==
    \E i \in 1..(Len(s) - Len(sub) + 1) : SubSeq(s, i, i + Len(sub) - 1) = sub

IsLeap(y) == (y % 4 = 0 /\ y % 100 # 0) \/ y % 400 = 0

DaysIn(y, m) ==
    IF m = 2 THEN (IF IsLeap(y) THEN 29 ELSE 28)
    ELSE IF m \in {4, 6, 9, 11} THEN 30 ELSE 31

\* SIMSReader._cleanup_date: [err, val]; err when the text does not parse
\* (Python raises ValueError), val = << >> for None, else the datetime
\* <<year, month, day, hour, minute>>
DateNone == [err |-> FALSE, val |-> << >>]

DateError == [err |-> TRUE, val |-> << >>]

\* datetime(year, month, day, hour, minute) raises ValueError out of range
MakeDate(year, month, day, hour, minute) ==
    IF /\ year \in 1..9999
       /\ month \in 1..12
       /\ day >= 1 /\ day <= DaysIn(year, month)
       /\ hour \in 0..23
       /\ minute \in 0..59
    THEN [err |-> FALSE, val |-> <<year, month, day, hour, minute>>]
    ELSE DateError

\* strptime's %y: 69..99 are 19xx, 0..68 are 20xx
FullYear(y0) ==
    IF 69 <= y0 /\ y0 < 100 THEN y0 + 1900
    ELSE IF 0 <= y0 /\ y0 < 69 THEN y0 + 2000
    ELSE y0

\* the date part split on '.', the time part on ':'
ParseDate(dmy, hm) ==
    IF Len(dmy) # 3 \/ Len(hm) # 2 THEN DateError
    ELSE IF \E x \in {dmy[1], dmy[2], dmy[3], hm[1], hm[2]} : ~IsInt(x)
    THEN DateError
    ELSE MakeDate(FullYear(ToInt(dmy[3])), ToInt(dmy[2]), ToInt(dmy[1]),
                  ToInt(hm[1]), ToInt(hm[2]))

\* `date, time = date.split()`
SplitDate(parts) ==
    IF Len(parts) # 2 THEN DateError
    ELSE ParseDate(SplitOn(parts[1], 46), SplitOn(parts[2], 58))

CleanupDate(date) ==
    IF date = << >> \/ Contains(date, NA) THEN DateNone
    ELSE SplitDate(SplitWS(date))

---------------------------------------------------------------------------
(* Text constants of the program.                                          *)

\* b'Poly_list\x00'
PolyListTok == <<80, 111, 108, 121, 95, 108, 105, 115, 116, 0>>

\* b'Champs_list\x00'
ChampsListTok == <<67, 104, 97, 109, 112, 115, 95, 108, 105, 115, 116, 0>>

\* b'Offset_list\x00'
OffsetListTok == <<79, 102, 102, 115, 101, 116, 95, 108, 105, 115, 116, 0>>

\* b'Anal_param_nano\x00'
AnalParamNanoTok == <<65, 110, 97, 108, 95, 112, 97, 114, 97, 109, 95, 110, 97, 110, 111, 0>>

\* b'Anal_param_nano_bis\x00'
AnalParamNanoBisTok == <<65, 110, 97, 108, 95, 112, 97, 114, 97, 109, 95, 110, 97, 110, 111, 95, 98, 105, 115, 0>>

\* 'rti', 'hmr', 'trolley step scan', 'SE'
StrRti == <<114, 116, 105>>

StrHmr == <<104, 109, 114>>

StrTss == <<116, 114, 111, 108, 108, 101, 121, 32, 115, 116, 101, 112, 32, 115, 99, 97, 110>>

StrSE == <<83, 69>>

---------------------------------------------------------------------------
(* Exceptions.                                                             *)

\* at: the byte offset an error message reports, -1 when it reports none
NoExc == [type |-> "", msg |-> "", at |-> -1]

Exc(t, m) == [type |-> t, msg |-> m, at |-> -1]

ExcAt(t, m, p) == [type |-> t, msg |-> m, at |-> p]

\* struct.error: unpack got fewer bytes than its format needs
StructError == Exc("struct.error", "unpack requires a buffer")

---------------------------------------------------------------------------
(* The format detector: SIMSReader.peek.                                   *)

\* _supported_file_types
SupportedFileTypes == {21, 22, 26, 27, 29, 31, 35, 39, 40, 41}

\* max(_supported_file_types)
MaxSupported == CHOOSE m \in SupportedFileTypes : \A t \in SupportedFileTypes : t <= m

\* the number of bytes peek asks the stream for
PeekLen == 12

\* `unpack(order + 'i', snip[4:8])[0] <= max(_supported_file_types)`
OrderFits(order, snip) == I32(order, SubSeq(snip, 5, 8)) <= MaxSupported

\* a variant that accepts every code between the smallest and the largest
\* supported one
TypeInSupportedRange(t) ==
    /\ t <= MaxSupported
    /\ \E u \in SupportedFileTypes : u <= t

\* the file type is accepted
TypeSupported(t) == t \in SupportedFileTypes

\* peek on file f with self.header = h: the header, byte order, exception,
\* stream position and number of bytes read that it leaves
Peek(f, h) ==
    LET n == Min(PeekLen, f.size)
        snip == Bytes(f, 0, n)
        base == [h |-> h, bo |-> "", exc |-> NoExc, pos |-> n, n |-> n]
    IN
    IF n < 8 THEN [base EXCEPT !.exc = StructError]
    ELSE
    LET order == IF OrderFits("<", snip) THEN "<"
                 ELSE IF OrderFits(">", snip) THEN ">"
                 ELSE ""
    IN
    IF order = ""
    THEN [base EXCEPT !.exc = Exc("TypeError", "Cannot determine file endianess.")]
    ELSE
    LET h1 == Put(h, "byte order", order) IN
    IF n < PeekLen
    THEN [base EXCEPT !.h = h1, !.bo = order, !.exc = StructError]
    ELSE
    LET h2 == Put(Put(Put(h1, "file version", I32(order, SubSeq(snip, 1, 4))),
                              "file type", I32(order, SubSeq(snip, 5, 8))),
                              "header size", I32(order, SubSeq(snip, 9, 12)))
    IN
    IF ~TypeSupported(h2["file type"])
    THEN [base EXCEPT !.h = h2, !.bo = order,
                      !.exc = Exc("NotImplementedError",
                                  "File of type is not supported at the moment.")]
    ELSE [base EXCEPT !.h = h2, !.bo = order]

---------------------------------------------------------------------------
(* Marker search over the raw header bytes.                                *)

\* the offsets below lim at which a placed byte equals c
PlacedAt(f, c, lim) ==
    UNION { { f.items[i].at + k - 1 : k \in {j \in 1..Len(f.items[i].b) :
                                               f.items[i].b[j] = c} }
            : i \in DOMAIN f.items } \cap (0..(lim - 1))

\* the token tok lies at offset p of the first lim bytes of f
TokenAt(f, lim, tok, p) ==
    /\ p >= 0
    /\ p + Len(tok) <= lim
    /\ \A k \in 1..Len(tok) : Byte(f, p + k - 1) = tok[k]

SetMin(S) == CHOOSE x \in S : \A y \in S : x <= y

SetMax(S) == CHOOSE x \in S : \A y \in S : x >= y

\* scans the candidate offsets upwards
RECURSIVE ScanUp(_, _, _, _)
ScanUp(f, lim, tok, ps) ==
    IF ps = {} THEN -1
    ELSE LET p == SetMin(ps)
         IN  IF TokenAt(f, lim, tok, p) THEN p
             ELSE ScanUp(f, lim, tok, ps \ {p})

\* scans the candidate offsets downwards
RECURSIVE ScanDown(_, _, _, _)
ScanDown(f, lim, tok, ps) ==
    IF ps = {} THEN -1
    ELSE LET p == SetMax(ps)
         IN  IF TokenAt(f, lim, tok, p) THEN p
             ELSE ScanDown(f, lim, tok, ps \ {p})

\* a variant of find that returns the highest offset
FindLast(f, lim, tok) == ScanDown(f, lim, tok, PlacedAt(f, tok[1], lim))

\* hdr.find(tok): the lowest offset of tok in the first lim bytes, -1 if none.
\* No token starts with a null byte, so only placed bytes can start a match.
Find(f, lim, tok) == ScanUp(f, lim, tok, PlacedAt(f, tok[1], lim))

\* hdr.rfind(tok): the highest offset
RFind(f, lim, tok) == ScanDown(f, lim, tok, PlacedAt(f, tok[1], lim))

\* the marker positions read_header computes (lines 149-156)
FindMarkers(f, lim) ==
    [poly   |-> RFind(f, lim, PolyListTok),
     champs |-> RFind(f, lim, ChampsListTok),
     offset |-> RFind(f, lim, OffsetListTok),
     apn    |-> Find(f, lim, AnalParamNanoTok),
     bis    |-> Find(f, lim, AnalParamNanoBisTok)]

NoMarks == [poly |-> -1, champs |-> -1, offset |-> -1, apn |-> -1, bis |-> -1]

---------------------------------------------------------------------------
(* The header cursor.  A decode state d holds the file (d.f), the length   *)
(* of the header buffer hdr (d.L), the byte order (d.bo), the position of  *)
(* hdr (d.cur), self.header (d.h), the exception raised so far (d.exc),    *)
(* the decode steps logged (d.ev) and the warnings (d.warn).  Every step   *)
(* leaves a state that already holds an exception as it is.                *)

Ok(d) == d.exc = NoExc

\* unpack(fmt, hdr.read(n)): n bytes, struct.error when hdr has fewer left
Rd(d, n) ==
    IF ~Ok(d) THEN d
    ELSE IF d.cur + n > d.L
    THEN [d EXCEPT !.exc = StructError, !.cur = Max(d.cur, d.L)]
    ELSE [d EXCEPT !.cur = d.cur + n]

\* hdr.seek(n, 1); io.BytesIO clamps a negative result to 0
Sk(d, n) ==
    IF ~Ok(d) THEN d ELSE [d EXCEPT !.cur = Max(0, d.cur + n)]

\* hdr.seek(p)
SeekAbs(d, p) ==
    IF ~Ok(d) THEN d
    ELSE IF p < 0 THEN [d EXCEPT !.exc = Exc("ValueError", "negative seek value")]
    ELSE [d EXCEPT !.cur = p]

\* hdr.seek(n, 2)
SeekEnd(d, n) ==
    IF ~Ok(d) THEN d ELSE [d EXCEPT !.cur = Max(0, d.L + n)]

Raise(d, e) == IF ~Ok(d) THEN d ELSE [d EXCEPT !.exc = e]

SetH(d, k, v) == IF ~Ok(d) THEN d ELSE [d EXCEPT !.h = Put(d.h, k, v)]

Log(d, op, at, n) ==
    IF ~Ok(d) THEN d
    ELSE [d EXCEPT !.ev = Append(d.ev, [op |-> op, at |-> at, n |-> n])]

Warn(d, w) == IF ~Ok(d) THEN d ELSE [d EXCEPT !.warn = Append(d.warn, w)]

\* the 32-bit integer at offset p of hdr, in the file's byte order
IntAt(d, p) == I32(d.bo, Bytes(d.f, p, 4))

\* the 16-bit integer at offset p of hdr
I16(order, b) ==
    IF order = "<" THEN b[1] + 256 * SByte(b[2]) ELSE b[2] + 256 * SByte(b[1])

ShortAt(d, p) == I16(d.bo, Bytes(d.f, p, 2))

\* the text of the n-byte field at offset p
TextAt(d, p, n) == CleanupString(Bytes(d.f, p, n))

---------------------------------------------------------------------------
(* Sub-record decoders of the main header.                                 *)

\* SIMSReader._species: 81 bytes, 3 unused, 15 ints
Species(d) == Rd(Sk(Rd(d, 81), 3), 60)

\* the label of the species that starts at offset p ('4i c 64s')
SpeciesLabel(d, p) == TextAt(d, p + 17, 64)

\* SIMSReader._autocal
AutoCal(d) == Rd(d, 76)

\* SIMSReader._hvcontrol
HVControl(d) == Rd(d, 112)

\* SIMSReader._sigref
SigRef(d) == Rd(Species(Rd(d, 4)), 12)

\* the type-dependent part of _main_header (lines 434-492)
MainHeaderByType(d, ft) ==
    IF ft \in {27, 29, 39} THEN AutoCal(Rd(d, 48))
    ELSE IF ft \in {22, 41} THEN Sk(HVControl(AutoCal(Rd(d, 64))), 4)
    ELSE IF ft \in {21, 26} THEN Sk(HVControl(AutoCal(Rd(d, 52))), 24)
    ELSE IF ft = 31 THEN Rd(d, 32)
    ELSE IF ft = 35 THEN HVControl(AutoCal(Rd(d, 76)))
    ELSE Raise(d, Exc("TypeError", "What type of image are you?"))

\* the number of 4-byte mass table pointers skipped (lines 509-521)
MassPtrCount(ft, fv) ==
    IF ft \in {21, 26, 27, 29, 35, 39} THEN (IF fv >= 4108 THEN 60 ELSE 10)
    ELSE IF ft \in {22, 31, 40, 41} THEN 20
    ELSE 0

\* d['MassTable'][label] = mi on an ordered dict, kept as its key list
DictAdd(keys, k) ==
    IF \E i \in 1..Len(keys) : keys[i] = k THEN keys ELSE Append(keys, k)

\* one mass table entry (lines 528-566): 40 bytes, 8 more (28 for type 31),
\* a species, and 4 bytes more for type 31
MassEntry(d, ft) ==
    IF ft = 31 THEN Sk(Species(Rd(Rd(d, 40), 28)), 4) ELSE Species(Rd(Rd(d, 40), 8))

\* the label of the entry that starts at the cursor of d
MassLabel(d, ft) ==
    IF IntAt(d, d.cur) = 8 THEN StrSE
    ELSE SpeciesLabel(d, d.cur + (IF ft = 31 THEN 68 ELSE 48))

\* the mass table loop: m entries left, keys so far in tbl; returns [d, tbl]
RECURSIVE MassLoop(_, _, _, _)
MassLoop(d, m, tbl, ft) ==
    IF m <= 0 \/ ~Ok(d) THEN [d |-> d, tbl |-> tbl]
    ELSE IF ~Ok(MassEntry(d, ft)) THEN [d |-> MassEntry(d, ft), tbl |-> tbl]
    ELSE MassLoop(MassEntry(d, ft), m - 1, DictAdd(tbl, MassLabel(d, ft)), ft)

\* the bytes a mass table entry takes
MassEntryLen(ft) == IF ft = 31 THEN 216 ELSE 192

\* the last of the m entries from offset start on that carries label k: the
\* one whose record d['MassTable'][k] holds at the end of the loop
LastEntry(d, start, m, ft, k) ==
    CHOOSE i \in 1..m :
        /\ MassLabel([d EXCEPT !.cur = start + (i - 1) * MassEntryLen(ft)], ft) = k
        /\ \A j \in (i + 1)..m :
               MassLabel([d EXCEPT !.cur = start + (j - 1) * MassEntryLen(ft)], ft) # k

\* d['mass list'] (line 571): the 8 bytes of 'mass' of the record of every
\* label of the label list
MassList(d, start, m, ft, tbl) ==
    [n \in 1..Len(tbl) |->
        Bytes(d.f, start + (LastEntry(d, start, m, ft, tbl[n]) - 1) * MassEntryLen(ft) + 8, 8)]

\* the mass table pointers, and the 4 bytes some types carry behind them
MassTableStart(d, ft, fv) ==
    IF ft \in {21, 22, 26, 40, 41, 35} THEN Sk(Sk(d, MassPtrCount(ft, fv) * 4), 4)
    ELSE Sk(d, MassPtrCount(ft, fv) * 4)

\* self.header.update(...) (line 165) with what _main_header returned; r is
\* the outcome of the mass table loop
MainHeaderStore(d, date, masses, r) ==
    IF ~Ok(r.d) THEN r.d
    ELSE Log([r.d EXCEPT !.h =
                 Put(Put(Put(Put(Put(Put(Put(d.h,
                     "data included", IntAt(d, d.cur + 4) # 0),
                     "analysis type", Lower(TextAt(d, d.cur + 16, 32))),
                     "date", date.val),
                     "masses", masses),
                     "MassTable", r.tbl),
                     "label list", r.tbl),
                     "mass list",
                     MassList(r.d, r.d.cur - Max(0, masses) * MassEntryLen(d.h["file type"]),
                              masses, d.h["file type"], r.tbl))],
             "main", r.d.cur, masses)

\* from the 'masses' count on; d2 is the state in front of it
MainHeaderMasses(d, date, d2) ==
    IF ~Ok(Rd(d2, 4)) THEN Rd(d2, 4)
    ELSE MainHeaderStore(d, date, IntAt(d, d2.cur),
             MassLoop(MassTableStart(Rd(d2, 4), d.h["file type"], d.h["file version"]),
                      IntAt(d, d2.cur), << >>, d.h["file type"]))

\* from the date on
MainHeaderDated(d, date) ==
    IF date.err THEN Raise(Rd(d, 112), Exc("ValueError", "not enough values to unpack"))
    ELSE MainHeaderMasses(d, date,
             SigRef(MainHeaderByType(Rd(d, 112), d.h["file type"])))

\* SIMSReader._main_header followed by self.header.update (line 165): the
\* header is touched only when the whole main header decoded
MainHeader(d) ==
    IF ~Ok(Rd(d, 112)) THEN Rd(d, 112)
    ELSE MainHeaderDated(d, CleanupDate(TextAt(d, d.cur + 80, 16) \o <<32>>
                                        \o TextAt(d, d.cur + 96, 16)))

---------------------------------------------------------------------------
(* The list section: PolyList, ChampsList, OffsetList.                     *)

\* the offset of a list's length field from its marker (line 644)
ListOffset == 16

\* a variant that steps over the content of a ChampsList or OffsetList
RECURSIVE PcoLoopSkip(_, _, _, _)
PcoLoopSkip(d, name, n, list) ==
    IF n <= 0 \/ ~Ok(d) THEN [d |-> d, list |-> list]
    ELSE IF name = "poly"
    THEN IF ~Ok(Species(d)) THEN [d |-> Species(d), list |-> list]
         ELSE PcoLoopSkip(Species(d), name, n - 1, Append(list, SpeciesLabel(d, d.cur)))
    ELSE [d |-> Sk(d, 4 * n), list |-> list]

\* the loop of _pco_list (lines 647-653): n entries left, labels decoded
\* so far; returns [d, list]
RECURSIVE PcoLoop(_, _, _, _)
PcoLoop(d, name, n, list) ==
    IF n <= 0 \/ ~Ok(d) THEN [d |-> d, list |-> list]
    ELSE IF name = "poly"
    THEN LET sp == d.cur
             d1 == Species(d)
         IN  IF ~Ok(d1) THEN [d |-> d1, list |-> list]
             ELSE PcoLoop(d1, name, n - 1, Append(list, SpeciesLabel(d, sp)))
    ELSE [d |-> Raise(d, Exc("NotImplementedError",
                             "List is non-null, don't know how to read.")),
          list |-> list]

\* the name of the header key a list is stored under
ListKey(name) ==
    IF name = "poly" THEN "PolyList"
    ELSE IF name = "champs" THEN "ChampsList"
    ELSE "OffsetList"

\* a variant that leaves the cursor on the 4 bytes behind the list
PcoStoreNoSkip(r, name) == SetH(r.d, ListKey(name), r.list)

\* the skip behind a list and the store under its key
PcoStore(r, name) == SetH(Sk(r.d, 4), ListKey(name), r.list)

\* from the length field on; d0 is the state at it
PcoRead(d, name, d0) ==
    IF ~Ok(Rd(d0, 4))
    THEN [Rd(d0, 4) EXCEPT !.ev = Append(d.ev, [op |-> name, at |-> d0.cur, n |-> -1])]
    ELSE PcoStore(PcoLoop(Log(Rd(d0, 4), name, d0.cur, IntAt(d, d0.cur)),
                          name, IntAt(d, d0.cur), << >>),
                  name)

\* self.header['NameList'] = self._pco_list(hdr, name, pos)
PcoList(d, name, pos) ==
    IF ~Ok(d) THEN d ELSE PcoRead(d, name, SeekAbs(d, pos + ListOffset))

\* a variant that goes on for every file type
NoPolySkipAlways(ft, atype) ==
    IF ft = 31
    THEN (IF EndsWith(atype, StrHmr) \/ EndsWith(atype, StrTss) THEN 120 ELSE 600)
    ELSE 216

\* the list-section dispatch of read_header (lines 177-212)
NoPolySkip(ft, atype) ==
    IF EndsWith(atype, StrRti) \/ ft = 35 THEN 216
    ELSE IF ft = 31
    THEN (IF EndsWith(atype, StrHmr) \/ EndsWith(atype, StrTss) THEN 120 ELSE 600)
    ELSE -1

ListSection(d, m) ==
    IF ~Ok(d) THEN d
    ELSE IF m.poly < 0
    THEN LET skip == NoPolySkip(d.h["file type"], d.h["analysis type"])
         IN  IF skip < 0
             THEN Raise(d, Exc("NotImplementedError", "No PolyList marker found in header"))
             ELSE Sk(d, skip)
    ELSE IF m.champs < 0 /\ m.offset < 0
    THEN PcoList(d, "poly", m.poly)
    ELSE IF m.poly < m.champs /\ m.champs < m.offset
    THEN PcoList(PcoList(PcoList(d, "poly", m.poly), "champs", m.champs),
                 "offset", m.offset)
    ELSE IF m.champs < m.offset /\ m.offset < m.poly
    THEN PcoList(PcoList(PcoList(d, "champs", m.champs), "offset", m.offset),
                 "poly", m.poly)
    ELSE Raise(d, Exc("NotImplementedError",
                      "An unknown order of the Poly/Champs/Offset Lists occured."))

---------------------------------------------------------------------------
(* NanoSIMSHeader and BFields.                                             *)

\* SIMSReader._sib_center, _energy_center, _e0s_center
SibCenter(d) == Rd(d, 40)

EnergyCenter(d) == Rd(d, 52)

E0SCenter(d) == Rd(d, 40)

\* self.header['NanoSIMSHeader'] = self._nanosims_header(hdr)
NanoSIMSHeader(d) ==
    IF ~Ok(d) THEN d
    ELSE
    LET s0 == d.cur
        d0 == Log(d, "nano", s0, 0)
        d1 == Rd(d0, 100)
        d2 == Rd(Sk(d1, 288), 4)
        d3 == Rd(SibCenter(SibCenter(d2)), 8)
        d4 == Rd(E0SCenter(EnergyCenter(d3)), 32)
    IN  SetH(d4, "NanoSIMSHeader", [bfields |-> IntAt(d, s0 + 96)])

\* SIMSReader._trolley: 192 bytes, 16 more from file version 4108 on
Trolley(d) ==
    IF d.h["file version"] >= 4108 THEN Sk(Rd(d, 192), 16) ELSE Rd(d, 192)

\* SIMSReader._phd: 24 bytes, 24 more from file version 4108 on
Phd(d) ==
    IF d.h["file version"] >= 4108 THEN Sk(Rd(d, 24), 24) ELSE Rd(d, 24)

RECURSIVE Repeat(_, _, _)
Repeat(Op(_), d, n) == IF n <= 0 \/ ~Ok(d) THEN d ELSE Repeat(Op, Op(d), n - 1)

\* a variant in which every real trolley counts as enabled
TrolleyEnabledIfReal(real, index) == real

\* d['trolley enabled'] (lines 865-866)
TrolleyEnabled(real, index) == real /\ index >= 0

\* what _trolley returns for the 192 bytes at the cursor of d: 'real
\* trolley' and 'cameca trolley index' are the 5th and 6th int behind the
\* label and two doubles
TrolleyRecord(d) ==
    [real |-> IntAt(d, d.cur + 96) # 0,
     index |-> IntAt(d, d.cur + 100),
     enabled |-> TrolleyEnabled(IntAt(d, d.cur + 96) # 0, IntAt(d, d.cur + 100))]

\* the trolley loop of _bfield: n trolleys left; returns [d, tr]
RECURSIVE TrolleyLoop(_, _, _)
TrolleyLoop(d, n, acc) ==
    IF n <= 0 \/ ~Ok(d) THEN [d |-> d, tr |-> acc]
    ELSE TrolleyLoop(Trolley(d), n - 1, Append(acc, TrolleyRecord(d)))

\* the phd loop of _bfield behind the trolleys r
BFieldPhd(r) == [d |-> Repeat(Phd, r.d, 12), rec |-> [Trolleys |-> r.tr]]

\* SIMSReader._bfield: the state behind it and the BField it returns
BField(d) == BFieldPhd(TrolleyLoop(Sk(Rd(d, 48), 8), 12, << >>))

\* the BFields loop (lines 219-231): header['BFields'] is set to [] first
\* and grows by one per decoded field
RECURSIVE BFieldLoop(_, _)
RECURSIVE BFieldNext(_, _)
BFieldNext(r, n) ==
    IF ~Ok(r.d) THEN r.d
    ELSE BFieldLoop(SetH(r.d, "BFields", Append(r.d.h["BFields"], r.rec)), n - 1)

BFieldLoop(d, n) ==
    IF n <= 0 \/ ~Ok(d) THEN d
    ELSE BFieldNext(BField(Log(d, "bfield", d.cur, n)), n)

BFields(d) ==
    IF ~Ok(d) THEN d
    ELSE BFieldLoop(SetH(Sk(d, 948), "BFields", << >>), d.h["NanoSIMSHeader"].bfields)

---------------------------------------------------------------------------
(* The Anal_param_nano section: beams, detectors, SIMSHeader, presets.     *)

\* count reads of n bytes each, one after the other
RdN(d, n, count) ==
    IF ~Ok(d) \/ count <= 0 THEN d
    ELSE LET fit == IF d.cur >= d.L THEN 0 ELSE (d.L - d.cur) \div n
         IN  IF count <= fit THEN [d EXCEPT !.cur = d.cur + n * count]
             ELSE [d EXCEPT !.exc = StructError, !.cur = Max(d.cur, d.L)]

\* the fields of _primary_beam that later analysis versions added
PrimaryBeamV3(d) ==
    IF Ok(d) /\ d.h["analysis version"] >= 3 THEN Rd(d, 4) ELSE d

PrimaryBeamV4(d) ==
    IF Ok(d) /\ d.h["analysis version"] >= 4 THEN Rd(Rd(Rd(d, 8), 4), 40) ELSE d

\* SIMSReader._primary_beam: ends at its start + 552 whatever it read
PrimaryBeam(d) ==
    IF ~Ok(d) THEN d
    ELSE SeekAbs(PrimaryBeamV4(PrimaryBeamV3(
             Rd(Sk(Rd(Rd(Rd(Rd(Rd(Rd(Rd(d, 24), 4), 40), 4), 40), 4), 40), 4), 64))),
             d.cur + 552)

\* SIMSReader._secondary_beam
SecondaryBeam(d) == Rd(d, 192)

\* SIMSReader._exit_slits, _electron_multiplier
ExitSlits(d) == Rd(Rd(Rd(Rd(Rd(d, 8), 20), 20), 20), 20)

ElectronMultiplier(d) == Rd(d, 16)

EmExit(d) == ElectronMultiplier(ExitSlits(d))

\* SIMSReader._detectors1: the cursor, and the keys left in Detectors after
\* 'E0S' and 'pressure multicollection chamber' are popped (lines 291-293)
Detectors1(d) ==
    Sk(EmExit(Repeat(ElectronMultiplier, Rd(Repeat(ExitSlits, d, 6), 72), 6)), 8)

Detectors1Keys ==
    {"FCs", "Detector 1", "Detector 2", "Detector 3", "Detector 4", "Detector 5",
     "LD", "EMBig"}

\* SIMSReader._detectors2; 'exit slit xl' is popped again (line 331)
Detectors2(d) == Rd(EmExit(EmExit(d)), 280)

Detectors2Keys == {"Detector 6", "Detector 7"}

\* SIMSReader._detectors3
Detectors3(d) == RdN(RdN(ElectronMultiplier(d), 8, 7), 4, 7)

\* the keys _detectors3 returns after 'TIC' is popped, in dict order
Detectors3Keys ==
    <<"Detector 1", "Detector 2", "Detector 3", "Detector 4", "Detector 5",
      "Detector 6", "Detector 7">>

\* SIMSReader._sims_header
SimsHeader(d) == Rd(Species(Species(Rd(d, 556))), 396)

\* whether the float64 in the 8 bytes b compares < 0
DoubleNegative(order, b) ==
    LET c == IF order = "<" THEN [i \in 1..8 |-> b[9 - i]] ELSE b
        zero == c[1] \in {0, 128} /\ \A i \in 2..8 : c[i] = 0
        nan == /\ c[1] % 128 = 127 /\ c[2] >= 240
               /\ (c[2] # 240 \/ \E i \in 3..8 : c[i] # 0)
    IN  c[1] >= 128 /\ ~zero /\ ~nan

\* the magic number in front of SIMSHeader (line 317)
SimsHeaderMagic == 2306

\* SIMSReader._preset_start: reads 8 bytes, tells whether they look like the
\* start of a path ('C:' or '/x'), and seeks 8 bytes back
PresetStartText(d) ==
    CleanupString(Bytes(d.f, d.cur, IF d.cur >= d.L THEN 0 ELSE Min(8, d.L - d.cur)))

PresetStart(d) ==
    /\ Len(PresetStartText(d)) >= 2
    /\ \/ PresetStartText(d)[1] \in 65..90 /\ PresetStartText(d)[2] = 58
       \/ PresetStartText(d)[1] = 47 /\ PresetStartText(d)[2] # 10

\* the cursor _preset_start leaves
PresetStartSeek(d) ==
    Sk([d EXCEPT !.cur = d.cur + (IF d.cur >= d.L THEN 0 ELSE Min(8, d.L - d.cur))], -8)

\* the fixed sizes of a slit and of a lens preset block
SlitSize == 1080

LensSize == 3640

\* the parameters of a preset; d1 is the state behind its 520 fixed bytes,
\* st its start
PresetParams(d1, st) ==
    RdN(IF CleanupDate(TextAt(d1, st + 480, 32)).err
        THEN Raise(d1, Exc("ValueError", "not enough values to unpack"))
        ELSE Log(d1, "preset", st, IntAt(d1, st + 516)),
        28, IntAt(d1, st + 516))

\* str(n) for an integer n
RECURSIVE StrNat(_)
StrNat(n) == IF n < 10 THEN <<48 + n>> ELSE Append(StrNat(n \div 10), 48 + (n % 10))

Str(n) == IF n < 0 THEN <<45>> \o StrNat(0 - n) ELSE StrNat(n)

\* the keys 'isf filename', 'preset name', 'calibration date', 'enabled' and
\* 'parameters' of a preset
KeyIsfFilename == <<105, 115, 102, 32, 102, 105, 108, 101, 110, 97, 109, 101>>

KeyPresetName == <<112, 114, 101, 115, 101, 116, 32, 110, 97, 109, 101>>

KeyCalibrationDate ==
    <<99, 97, 108, 105, 98, 114, 97, 116, 105, 111, 110, 32, 100, 97, 116, 101>>

KeyEnabled == <<101, 110, 97, 98, 108, 101, 100>>

KeyParameters == <<112, 97, 114, 97, 109, 101, 116, 101, 114, 115>>

PresetHeadKeys ==
    {KeyIsfFilename, KeyPresetName, KeyCalibrationDate, KeyEnabled, KeyParameters}

\* the dict of a preset behind its 520 fixed bytes (lines 1111-1119)
PresetHead(d, st) ==
    (KeyIsfFilename :> TextAt(d, st, 256))
    @@ (KeyPresetName :> TextAt(d, st + 256, 224))
    @@ (KeyCalibrationDate :> CleanupDate(TextAt(d, st + 480, 32)).val)
    @@ (KeyEnabled :> (IntAt(d, st + 512) # 0))
    @@ (KeyParameters :> IntAt(d, st + 516))

\* the key of the parameter entry at offset at: its name, or str(param_id)
\* when the name is empty (lines 1131-1133)
ParamName(d, at) ==
    IF TextAt(d, at + 8, 20) = << >> THEN Str(IntAt(d, at)) ELSE TextAt(d, at + 8, 20)

\* the loop of lines 1127-1134 over the n entries from offset at on:
\* d[param_name] = value
RECURSIVE PresetLoop(_, _, _, _)
PresetLoop(d, at, n, acc) ==
    IF n <= 0 THEN acc
    ELSE PresetLoop(d, at + 28, n - 1, Put(acc, ParamName(d, at), IntAt(d, at + 4)))

\* the dict _preset returns for the block that starts at st
PresetDict(d, st) ==
    PresetLoop(d, st + 520, IntAt(d, st + 516), PresetHead(d, st))

\* a variant that never seeks backwards
PresetEndForward(d3, st, size) == Sk(d3, Max(0, size - (d3.cur - st)))

\* the seek to the end of the block
PresetEnd(d3, st, size) == Sk(d3, size - (d3.cur - st))

\* the return of _preset: the dict joins the presets read so far
PresetReturn(e, st) ==
    IF ~Ok(e) THEN e
    ELSE Log([e EXCEPT !.loc = Append(e.loc, PresetDict(e, st))], "presetend", e.cur, 0)

\* SIMSReader._preset with the block size of its group
Preset(d, size) ==
    IF ~Ok(d) THEN d
    ELSE PresetReturn(PresetEnd(PresetParams(Rd(d, 520), d.cur), d.cur, size), d.cur)

\* one group of _presets: a padding block is skipped unless a preset starts
\* here, then a slit preset and a lens preset
PresetGroup(d) ==
    Preset(Preset(IF PresetStart(d) THEN PresetStartSeek(d)
                  ELSE Sk(PresetStartSeek(d), SlitSize),
                  SlitSize),
           LensSize)

PresetPad(d) == IF PresetStart(d) THEN 0 ELSE 1

\* the dict _presets returns, from the four presets read
PresetsDict(loc) ==
    [Presputter |-> [Slits |-> loc[1], Lenses |-> loc[2]],
     Measure |-> [Slits |-> loc[3], Lenses |-> loc[4]]]

\* the skip over the padding not yet skipped (line 1168), and the store of
\* line 342; st is the cursor _presets started at
PresetsStore(e, padding, st) ==
    IF ~Ok(e) THEN e
    ELSE SetH(Log(Sk(e, SlitSize * (2 - padding)), "presets", st,
                  Sk(e, SlitSize * (2 - padding)).cur),
              "Presets", PresetsDict(e.loc))

PresetsSecond(d, b) ==
    IF ~Ok(b) THEN b
    ELSE PresetsStore(PresetGroup(b), PresetPad(d) + PresetPad(b), d.cur)

\* SIMSReader._presets
Presets(d) ==
    IF ~Ok(d) THEN d ELSE PresetsSecond(d, PresetGroup([d EXCEPT !.loc = << >>]))

\* the merge of _detectors3 into Detectors (lines 349-351): KeyError at the
\* first detector record that does not exist
RECURSIVE MergeD3(_, _)
MergeD3(d, i) ==
    IF ~Ok(d) \/ i > Len(Detectors3Keys) THEN d
    ELSE IF Detectors3Keys[i] \in d.h["Detectors"] THEN MergeD3(d, i + 1)
    ELSE Raise(d, Exc("KeyError", Detectors3Keys[i]))

\* the 70 integers of 'exit slit xl' (line 985), read at offset at
ExitSlitXL(d, at) == [i \in 1..70 |-> IntAt(d, at + 4 * (i - 1))]

\* xl[a:b]
Slice(xl, a, b) == SubSeq(xl, a + 1, Min(b, Len(xl)))

\* lines 332-339: for n in range(7), the XL row of the widths of
\* Detector n+1 is xl[5*n:5*(n+1)] and the XL row of its heights
\* xl[5*(n+1):5*(n+2)]
XLSplice(xl) ==
    [k \in 1..7 |-> [widths |-> Slice(xl, 5 * (k - 1), 5 * k),
                     heights |-> Slice(xl, 5 * k, 5 * (k + 1))]]

\* lines 329-339 behind _detectors2: 'exit slit xl' is popped and spliced
\* into the exit slits of Detector 1 to 7, kept here under "exit slits xl"
Detectors2Splice(d2, at) ==
    SetH(d2, "exit slits xl", XLSplice(ExitSlitXL(d2, at)))

\* lines 323-342: from analysis version 5 on, Detectors 6 and 7 when the
\* bis marker was found, and the presets either way
BisSection(d, m) ==
    IF ~Ok(d) \/ d.h["analysis version"] < 5 THEN d
    ELSE IF m.bis < 0
    THEN Presets(Warn(d, "Anal_param_nano_bis not found in header"))
    ELSE Presets(Log(Detectors2Splice(
                         SetH(Detectors2(SeekAbs(d, m.bis + 24)),
                              "Detectors", d.h["Detectors"] \cup Detectors2Keys),
                         m.bis + 24 + 208),
                     "bis", m.bis + 24, 0))

\* lines 347-351: from analysis version 6 on
TicSection(d) ==
    IF ~Ok(d) \/ d.h["analysis version"] < 6 THEN d
    ELSE MergeD3(SetH(Detectors3(d), "Detectors", d.h["Detectors"] \cup {"TIC"}), 1)

\* lines 323-351
VersionGated(d, m) == TicSection(BisSection(d, m))

\* lines 277-283: analysis version, n50large, comment; p is where they start
ApnVersion(d, p) ==
    SetH(SetH(SetH(Log(d, "apn", p, IntAt(d, p)),
                   "analysis version", IntAt(d, p)),
              "n50large", IntAt(d, p + 4) # 0),
         "comment", TextAt(d, p + 16, 256))

\* line 294: the sign of the first double of SecondaryBeam, which starts at sb
ApnPolarity(d, sb) ==
    SetH(d, "polarity", IF DoubleNegative(d.bo, Bytes(d.f, sb, 8)) THEN "+" ELSE "-")

\* lines 285-294; d is the state behind PrimaryBeam
ApnDetectors(d) ==
    ApnPolarity(SetH(Detectors1(SetH(SecondaryBeam(d), "SecondaryBeam", TRUE)),
                     "Detectors", Detectors1Keys),
                d.cur)

\* a variant that reports the offset behind the magic number
ApnMagicTell(d, m) ==
    IF ~Ok(Rd(d, 4)) THEN Rd(d, 4)
    ELSE IF IntAt(d, d.cur) # SimsHeaderMagic
    THEN Raise(Rd(d, 4),
               ExcAt("ValueError", "SIMSHeader magic number not found here at byte",
                     d.cur + 4))
    ELSE VersionGated(SetH(SimsHeader(Rd(d, 4)), "SIMSHeader", TRUE), m)

\* lines 316-352: the magic number, SIMSHeader and what follows
ApnMagic(d, m) ==
    IF ~Ok(Rd(d, 4)) THEN Rd(d, 4)
    ELSE IF IntAt(d, d.cur) # SimsHeaderMagic
    THEN Raise(Rd(d, 4),
               ExcAt("ValueError", "SIMSHeader magic number not found here at byte", d.cur))
    ELSE VersionGated(SetH(SimsHeader(Rd(d, 4)), "SIMSHeader", TRUE), m)

\* a variant in which a missing Anal_param_nano marker ends the decode
AnalParamNanoFatal(d, m) ==
    IF ~Ok(d) THEN d
    ELSE IF m.apn < 0 THEN Raise(d, Exc("ValueError", "Anal_param_nano not found in header"))
    ELSE ApnMagic(ApnDetectors(SetH(PrimaryBeam(
             ApnVersion(Rd(SeekAbs(d, m.apn + 16), 272), m.apn + 16)),
             "PrimaryBeam", TRUE)), m)

\* lines 274-352
AnalParamNano(d, m) ==
    IF ~Ok(d) THEN d
    ELSE IF m.apn < 0 THEN Warn(d, "Anal_param_nano not found in header")
    ELSE ApnMagic(ApnDetectors(SetH(PrimaryBeam(
             ApnVersion(Rd(SeekAbs(d, m.apn + 16), 272), m.apn + 16)),
             "PrimaryBeam", TRUE)), m)

---------------------------------------------------------------------------
(* The tail section and read_header as a whole.                            *)

\* tuple[n] on a tuple of length len raises IndexError
BadIndex(n, len) == n >= len \/ n < 0 - len

\* SIMSReader._isotopes_hdr
IsotopesHdr(d) ==
    IF ~Ok(d) THEN d
    ELSE
    LET s0 == d.cur
        d1 == Rd(d, 16)
    IN
    IF ~Ok(d1) THEN d1
    ELSE
    LET ratios == IntAt(d, s0 + 12)
        d2 == IF ratios < 0 THEN Raise(d1, StructError) ELSE RdN(d1, 8, ratios)
    IN
    IF ~Ok(d2) THEN d2
    ELSE IF \E i \in 0..(2 * ratios - 1) :
               BadIndex(IntAt(d, s0 + 16 + 4 * i), Len(d.h["label list"]))
    THEN Raise(d2, Exc("IndexError", "tuple index out of range"))
    ELSE SetH(Sk(d2, 176 - 16 - 8 * ratios), "Isotopes", [ratios |-> ratios])

\* the size an Image header must declare (line 1182)
ImageHdrSize == 84

\* SIMSReader._image_hdr
ImageHdr(d) ==
    IF ~Ok(d) THEN d
    ELSE
    LET s0 == d.cur
        d1 == Rd(d, 84)
    IN
    IF ~Ok(d1) THEN d1
    ELSE IF IntAt(d, s0) # ImageHdrSize
    THEN Raise(d1, Exc("ValueError", "Image header size is not 84."))
    ELSE SetH(d1, "Image", [width  |-> ShortAt(d, s0 + 6),
                            height |-> ShortAt(d, s0 + 8),
                            bpp    |-> ShortAt(d, s0 + 10),
                            masses |-> ShortAt(d, s0 + 12),
                            planes |-> ShortAt(d, s0 + 14)])

\* a variant that decodes the tail block where the cursor stands
TailSectionAtCursor(d) ==
    IF ~Ok(d) THEN d
    ELSE IF d.h["file type"] = 26 THEN IsotopesHdr(Log(d, "tail", d.cur, 26))
    ELSE IF d.h["file type"] \in {21, 22, 31, 35} THEN Log(d, "tail", d.cur, 0)
    ELSE ImageHdr(Log(d, "tail", d.cur, 0))

\* lines 354-363; the external .chk_is file of lines 366-367 is taken not
\* to exist
TailSection(d) ==
    IF ~Ok(d) THEN d
    ELSE
    LET ft == d.h["file type"]
        d0 == Log(d, "tail", d.cur, ft)
    IN  IF ft = 26 THEN IsotopesHdr(SeekEnd(d0, -176))
        ELSE IF ft \in {21, 22, 31, 35} THEN d0
        ELSE ImageHdr(SeekEnd(d0, -84))

\* how many bytes self.fh.read(n) returns at position pos
Avail(f, pos, n) == Max(0, Min(n, f.size - pos))

\* the position at which read_header's cursor starts (line 164)
MainHeaderStart == 12

\* the kinds of stream TransparentOpen hands out: "file" is a buffered
\* reader (open(), tarfile's extractfile), "bytesio" an io.BytesIO
\* (zip, 7z), "decomp" a gzip, bz2 or lzma file
BufferedKinds == {"file", "tarfile"}

\* self.fh.read(n): a negative n reads everything, except that a buffered
\* reader accepts no negative size but -1
ReadLen(f, kind, n) ==
    IF n >= 0 THEN Avail(f, 0, n)
    ELSE IF kind \in BufferedKinds /\ n < -1 THEN -1
    ELSE f.size

\* what read_header leaves: the header, the exception, the decode steps, the
\* warnings, the marker positions, the stream position and the bytes read
ReadHeaderResult(d, m) ==
    [h |-> d.h, exc |-> d.exc, ev |-> d.ev, warn |-> d.warn, marks |-> m,
     pos |-> d.L, n |-> d.L]

\* lines 164-363 on the decode state d0, with the marker positions m
Decode(d0, m) ==
    ReadHeaderResult(
        TailSection(AnalParamNano(BFields(NanoSIMSHeader(
            ListSection(MainHeader(d0), m))), m)), m)

\* SIMSReader.read_header on file f, a stream of the given kind, with
\* self.header = h and self._bo = order
ReadHeader(f, kind, h, order) ==
    IF ~Has(h, "header size")
    THEN [h |-> h, exc |-> Exc("KeyError", "header size"), ev |-> << >>,
          warn |-> << >>, marks |-> NoMarks, pos |-> 0, n |-> 0]
    ELSE IF ReadLen(f, kind, h["header size"]) < 0
    THEN [h |-> h, exc |-> Exc("ValueError", "read length must be non-negative or -1"),
          ev |-> << >>, warn |-> << >>, marks |-> NoMarks, pos |-> 0, n |-> 0]
    ELSE Decode([f |-> f, L |-> ReadLen(f, kind, h["header size"]), bo |-> order,
                 cur |-> MainHeaderStart, h |-> h, exc |-> NoExc, ev |-> << >>,
                 warn |-> << >>, loc |-> << >>],
                FindMarkers(f, ReadLen(f, kind, h["header size"])))

---------------------------------------------------------------------------
(* The data plane: SIMSReader.read_data.                                   *)

NoData == [kind |-> "None", shape |-> << >>, vals |-> << >>]

\* the n bytes at p as a number's bytes, most significant first
Raw(f, order, p, n) ==
    IF order = "<" THEN [i \in 1..n |-> Byte(f, p + n - i)] ELSE Bytes(f, p, n)

\* a result of a data-plane strategy
DataResult(dat, corr, e, pos, n, w) ==
    [data |-> dat, corr |-> corr, exc |-> e, pos |-> pos, n |-> n, warn |-> w]

\* the classes _image_data reads with frombuffer(fh.read()) (lines 1222-1232)
FromBufferKinds == {"decomp", "decomp_fd", "tarfile", "bytesio"}

\* a variant that leaves the cube in stream order
SwapIndexNone(k, S, P, H, W) == k

\* the raw index of element k of the swapped cube of shape [S, P, H, W]:
\* data.swapaxes(0, 1).copy() of an array of shape [P, S, H, W]
SwapIndex(k, S, P, H, W) ==
    LET x == k % W
        y == (k \div W) % H
        pl == (k \div (W * H)) % P
        sp == k \div (W * H * P)
    IN  ((pl * S + sp) * H + y) * W + x

\* SIMSReader._image_data
ImageData(f, kind, h, order, pos0) ==
    IF ~Has(h, "Image")
    THEN DataResult(NoData, NoData, Exc("KeyError", "Image"), pos0, 0, << >>)
    ELSE
    LET img == h["Image"]
        hs == h["header size"]
        bytes == Max(0, f.size - hs)
        fail(e) == DataResult(NoData, NoData, e, pos0, 0, << >>)
    IN
    IF img.bpp \notin {2, 4}
    THEN fail(Exc("UnboundLocalError", "local variable 'dt' referenced before assignment"))
    ELSE IF hs < 0 THEN fail(Exc("ValueError", "negative seek value"))
    ELSE IF kind \in FromBufferKinds /\ bytes % img.bpp # 0
    THEN DataResult(NoData, NoData,
                    Exc("ValueError", "buffer size must be a multiple of element size"),
                    Max(hs, f.size), bytes, << >>)
    ELSE
    LET count == bytes \div img.bpp
        P == img.planes
        S == img.masses
        H == img.height
        W == img.width
        after == IF kind \in FromBufferKinds THEN Max(hs, f.size) ELSE hs + count * img.bpp
        bad(e) == DataResult(NoData, NoData, e, after, count * img.bpp, << >>)
    IN
    IF \E x \in {P, S, H, W} : x < 0 \/ x > Max(count, 1)
    THEN bad(Exc("ValueError", "cannot reshape array"))
    ELSE IF P * S * H * W # count
    THEN bad(Exc("ValueError", "cannot reshape array"))
    ELSE IF Len(h["label list"]) # S
    THEN bad(Exc("ValueError", "conflicting sizes for dimension 'species'"))
    ELSE DataResult([kind |-> "image", shape |-> <<S, P, H, W>>,
                     vals |-> [k \in 1..count |->
                                  Raw(f, order, hs + SwapIndex(k - 1, S, P, H, W) * img.bpp,
                                      img.bpp)]],
                    NoData, NoExc, after, count * img.bpp, << >>)

\* a float64 that np.fromfile took from the compressed file behind a
\* decompressing stream: not a value of the decompressed content
Compressed == [i \in 1..8 |-> -1]

\* one block of a series: an int (points), then 2 * points float64 read with
\* np.fromfile and reshaped to (2, points); [exc, pos, x, y].  np.fromfile
\* reads the descriptor self.fh.fileno() at the offset self.fh.tell(): an
\* io.BytesIO and a tar member have no descriptor; a gzip, bz2 or lzma file
\* hands out the descriptor of the compressed file, which at that offset
\* holds no bytes (kind "decomp") or bytes of the compressed stream (kind
\* "decomp_fd")
SeriesBlock(f, kind, order, pos) ==
    LET none == [exc |-> NoExc, pos |-> pos, x |-> << >>, y |-> << >>] IN
    IF Avail(f, pos, 4) < 4 THEN [none EXCEPT !.exc = StructError, !.pos = Max(pos, f.size)]
    ELSE
    LET points == I32(order, Bytes(f, pos, 4))
        p1 == pos + 4
        left == (f.size - p1) \div 8
    IN
    IF kind = "bytesio"
    THEN [none EXCEPT !.exc = Exc("UnsupportedOperation", "fileno"), !.pos = p1]
    ELSE IF kind = "tarfile"
    THEN [none EXCEPT !.exc = Exc("AttributeError", "fileno"), !.pos = p1]
    ELSE IF kind = "decomp"
    THEN IF points \in {-1, 0} THEN [none EXCEPT !.pos = p1]
         ELSE [none EXCEPT !.exc = Exc("ValueError", "cannot reshape array"), !.pos = p1]
    ELSE IF kind = "decomp_fd"
    THEN IF points < 0
         THEN [none EXCEPT !.exc = Exc("ValueError", "cannot reshape array"), !.pos = p1]
         ELSE [exc |-> NoExc, pos |-> p1 + 16 * points,
               x |-> [i \in 1..points |-> Compressed],
               y |-> [i \in 1..points |-> Compressed]]
    ELSE IF points < -1
    THEN [none EXCEPT !.exc = Exc("ValueError", "cannot reshape array"),
                      !.pos = p1 + 8 * left]
    ELSE
    LET got == IF points = -1 \/ points > left THEN left ELSE Min(left, 2 * points)
        n == IF points = -1 THEN left \div 2 ELSE points
    IN
    IF (points = -1 /\ left % 2 # 0) \/ (points >= 0 /\ (points > left \/ got # 2 * points))
    THEN [none EXCEPT !.exc = Exc("ValueError", "cannot reshape array"),
                      !.pos = p1 + 8 * got]
    ELSE [exc |-> NoExc, pos |-> p1 + 8 * got,
          x |-> [i \in 1..n |-> Raw(f, order, p1 + 8 * (i - 1), 8)],
          y |-> [i \in 1..n |-> Raw(f, order, p1 + 8 * (n + i - 1), 8)]]

\* the loop state after block b: the rows read, and the x values of the
\* longest block so far
AfterBlock(acc, b) ==
    [exc |-> b.exc, pos |-> b.pos,
     rows |-> IF b.exc = NoExc THEN Append(acc.rows, b.y) ELSE acc.rows,
     x |-> IF b.exc = NoExc /\ Len(b.y) > acc.maxpoints THEN b.x ELSE acc.x,
     maxpoints |-> IF b.exc = NoExc /\ Len(b.y) > acc.maxpoints THEN Len(b.y)
                   ELSE acc.maxpoints]

\* the block loop of _isotope_data and _beamstability_data: k blocks left;
\* [exc, pos, rows, x, maxpoints]
RECURSIVE SeriesLoop(_, _, _, _, _)
SeriesLoop(f, kind, order, k, acc) ==
    IF k <= 0 \/ acc.exc # NoExc THEN acc
    ELSE SeriesLoop(f, kind, order, k - 1,
                    AfterBlock(acc, SeriesBlock(f, kind, order, acc.pos)))

\* a series read from position start on: the block count, then the blocks
Series(f, kind, order, start) ==
    IF Avail(f, start, 4) < 4
    THEN [exc |-> StructError, pos |-> Max(start, f.size), rows |-> << >>,
          x |-> << >>, maxpoints |-> 0]
    ELSE SeriesLoop(f, kind, order, I32(order, Bytes(f, start, 4)),
                    [exc |-> NoExc, pos |-> start + 4, rows |-> << >>,
                     x |-> << >>, maxpoints |-> 0])

\* xarray.DataArray(rows, dims=('species', ...), coords={'species': labels}):
\* the rows must form a matrix with one row per label
IsMatrix(rows, labels) ==
    /\ Len(rows) >= 1
    /\ \A i \in 1..Len(rows) : Len(rows[i]) = Len(rows[1])
    /\ Len(rows) = Len(labels)

\* the DataArray built from the series r that was read from start on
SeriesArray(r, rows, labels, start, name) ==
    IF r.exc # NoExc THEN DataResult(NoData, NoData, r.exc, r.pos, r.pos - start, << >>)
    ELSE IF ~IsMatrix(rows, labels)
    THEN DataResult(NoData, NoData, Exc("ValueError", "conflicting sizes"),
                    r.pos, r.pos - start, << >>)
    ELSE IF name = "isotope"
    THEN DataResult(NoData,
                    [kind |-> name, shape |-> <<Len(rows), Len(rows[1])>>, vals |-> rows],
                    NoExc, r.pos, r.pos - start, << >>)
    ELSE DataResult([kind |-> name, shape |-> <<Len(rows), Len(rows[1])>>, vals |-> rows],
                    NoData, NoExc, r.pos, r.pos - start, << >>)

\* _isotope_data stores the rows as read, in self._data_corr
IsotopeArray(r, labels, start) == SeriesArray(r, r.rows, labels, start, "isotope")

\* SIMSReader._isotope_data; the external _txt file of lines 390-391 is
\* taken not to exist
IsotopeData(f, kind, h, order, pos0) ==
    IF h["header size"] < 0
    THEN DataResult(NoData, NoData, Exc("ValueError", "negative seek value"), pos0, 0, << >>)
    ELSE IsotopeArray(Series(f, kind, order, h["header size"]), h["label list"],
                      h["header size"])

\* np.pad(row, (0, n - len(row)), 'constant'): zeros on the right
F64Zero == Zeros(8)

\* a variant that pads in front
PadRowLeft(row, n) == [i \in 1..(n - Len(row)) |-> F64Zero] \o row

PadRow(row, n) == row \o [i \in 1..(n - Len(row)) |-> F64Zero]

\* _beamstability_data pads every row to the longest, and stores in self.data
TraceArray(r, labels, start) ==
    SeriesArray(r, [i \in 1..Len(r.rows) |-> PadRow(r.rows[i], r.maxpoints)],
                labels, start, "trace")

\* SIMSReader._beamstability_data: reads from where the stream stands
BeamStabilityData(f, kind, h, order, pos0) ==
    TraceArray(Series(f, kind, order, pos0), h["label list"], pos0)

\* a variant that runs the strategy whatever the 'data included' flag says
ReadDataAlways(f, kind, h, order, pos0) ==
    IF ~Has(h, "data included")
    THEN DataResult(NoData, NoData, Exc("KeyError", "data included"), pos0, 0, << >>)
    ELSE IF h["file type"] \in {21, 26} THEN IsotopeData(f, kind, h, order, pos0)
    ELSE IF h["file type"] = 22
    THEN DataResult(NoData, NoData, NoExc, pos0, 0, <<"No data read for line scan, fix">>)
    ELSE IF h["file type"] \in {31, 35} THEN BeamStabilityData(f, kind, h, order, pos0)
    ELSE ImageData(f, kind, h, order, pos0)

\* SIMSReader.read_data on a stream standing at pos0
ReadData(f, kind, h, order, pos0) ==
    IF ~Has(h, "data included")
    THEN DataResult(NoData, NoData, Exc("KeyError", "data included"), pos0, 0, << >>)
    ELSE
    LET ft == h["file type"] IN
    IF ~h["data included"] THEN DataResult(NoData, NoData, NoExc, pos0, 0, << >>)
    ELSE IF ft \in {21, 26} THEN IsotopeData(f, kind, h, order, pos0)
    ELSE IF ft = 22
    THEN DataResult(NoData, NoData, NoExc, pos0, 0, <<"No data read for line scan, fix">>)
    ELSE IF ft \in {31, 35} THEN BeamStabilityData(f, kind, h, order, pos0)
    ELSE ImageData(f, kind, h, order, pos0)

---------------------------------------------------------------------------
(* The stream opener: TransparentOpen.                                     *)

\* os.path.splitext twice (lines 40-44): a file name is the sequence of its
\* dot-separated components; its extension is the last one, joined to a
\* '.tar' in front of it
ExtOf(name) ==
    IF Len(name) < 2 THEN << >>
    ELSE IF Len(name) >= 3 /\ name[Len(name) - 1] = ".tar"
    THEN <<".tar", name[Len(name)]>>
    ELSE <<name[Len(name)]>>

TarExts ==
    {<<".tar">>, <<".tar", ".bz2">>, <<".tbz">>, <<".tbz2">>, <<".tar", ".gz">>,
     <<".tgz">>, <<".tar", ".xz">>, <<".txz">>, <<".tar", ".lzma">>, <<".tlz">>}

\* the class of the stream TransparentOpen.__init__ stores in self.fh
StreamKind(name) ==
    LET ext == ExtOf(name) IN
    IF ext \in {<<".gz">>, <<".bz2">>, <<".lzma">>, <<".xz">>} THEN "decomp"
    ELSE IF ext \in TarExts THEN "tarfile"
    ELSE IF ext \in {<<".7z">>, <<".zip">>} THEN "bytesio"
    ELSE "file"

\* the streams np.fromfile may find behind a stream of the given kind: what
\* the compressed file holds at the offset of the data is not determined
\* by the decompressed content
DataKinds(kind) == IF kind = "decomp" THEN {"decomp", "decomp_fd"} ELSE {kind}

\* self.fh_archive after TransparentOpen.__init__: only the tar family keeps
\* the outer archive open in it
ArchiveAfterOpen(name) == IF ExtOf(name) \in TarExts THEN "open" ELSE "None"

\* TransparentOpen.close on the outer handle: `if self.fh_archive: close()`
ArchiveAfterClose(a) == IF a = "open" THEN "closed" ELSE a

---------------------------------------------------------------------------
(* The files considered.  A file is written field by field at the offsets  *)
(* at which the reader decodes the field; all other bytes are zero.        *)

\* struct.pack('<i' / '>i', v) and ('<h' / '>h', v)
Pack32(order, v) ==
    LET le == <<v % 256, (v \div 256) % 256, (v \div 65536) % 256,
                (v \div 16777216) % 256>>
    IN  IF order = "<" THEN le ELSE <<le[4], le[3], le[2], le[1]>>

Pack16(order, v) ==
    IF order = "<" THEN <<v % 256, (v \div 256) % 256>>
    ELSE <<(v \div 256) % 256, v % 256>>

Item(at, b) == [at |-> at, b |-> b]

\* '12C', '15.03.12', '10:30', 'RTI', 'x'
Str12C == <<49, 50, 67>>

StrDate == <<49, 53, 46, 48, 51, 46, 49, 50>>

StrTime == <<49, 48, 58, 51, 48>>

StrRTI == <<82, 84, 73>>

StrX == <<120>>

\* the three ints peek decodes
PreambleItems(p) ==
    <<Item(0, Pack32(p.order, p.fv) \o Pack32(p.order, p.ft) \o Pack32(p.order, p.hs))>>

\* the fields of _main_header's first 112 bytes ('2i 8x 2i 32s 32s ...')
CommonItems(p) ==
    <<Item(16, Pack32(p.order, p.incl)), Item(92, StrDate), Item(108, StrTime)>>
    \o (IF p.atype = << >> THEN << >> ELSE <<Item(28, p.atype)>>)

\* the length of the type-dependent part of the main header
TypePartSize(ft) ==
    IF ft \in {27, 29, 39} THEN 124
    ELSE IF ft \in {22, 41} THEN 256
    ELSE IF ft \in {21, 26, 35} THEN 264
    ELSE 32

\* the offset of the 'masses' count: main header start, 112 common bytes,
\* the type-dependent part and SigRef
MassCountAt(ft) == 12 + 112 + TypePartSize(ft) + 160

\* the offset of the first mass table entry
MassTableAt(ft, fv) ==
    MassCountAt(ft) + 4 + 4 * MassPtrCount(ft, fv)
    + (IF ft \in {21, 22, 26, 40, 41, 35} THEN 4 ELSE 0)

\* the size of a mass table entry and the offset of its species in it
MassEntrySize(ft) == IF ft = 31 THEN 216 ELSE 192

MassSpeciesAt(ft) == IF ft = 31 THEN 68 ELSE 48

\* the mass table: the count and one entry per label
MassItems(p) ==
    IF p.labels = << >> THEN << >>
    ELSE <<Item(MassCountAt(p.ft), Pack32(p.order, Len(p.labels)))>>
         \o [i \in 1..Len(p.labels) |->
                Item(MassTableAt(p.ft, p.fv) + (i - 1) * MassEntrySize(p.ft)
                     + MassSpeciesAt(p.ft) + 17, p.labels[i])]
         \o [i \in 1..Len(p.tix) |->
                Item(MassTableAt(p.ft, p.fv) + (i - 1) * MassEntrySize(p.ft),
                     Pack32(p.order, p.tix[i]) \o Zeros(4) \o <<i>>)]

\* where list block i is written
SlotAt(i) == 2048 + (i - 1) * 1024

ListTok(kind) ==
    IF kind = "poly" THEN PolyListTok
    ELSE IF kind = "champs" THEN ChampsListTok
    ELSE OffsetListTok

\* a list block: the marker, at +16 the length, then for a PolyList one
\* species of 144 bytes per entry
ListBlock(p, i) ==
    LET sl == p.slots[i] IN
    IF sl.kind = "" THEN << >>
    ELSE <<Item(SlotAt(i), ListTok(sl.kind))>>
         \o (IF sl.len = 0 THEN << >>
             ELSE <<Item(SlotAt(i) + ListOffset, Pack32(p.order, sl.len))>>)
         \o (IF sl.kind # "poly" THEN << >>
             ELSE [k \in 1..sl.len |->
                      Item(SlotAt(i) + ListOffset + 4 + 144 * (k - 1) + 17, Str12C)])

RECURSIVE ListItems(_, _)
ListItems(p, i) ==
    IF i > Len(p.slots) THEN << >> ELSE ListBlock(p, i) \o ListItems(p, i + 1)

\* where Anal_param_nano / Anal_param_nano_bis block j is written
ApnAt(j) == 8192 + (j - 1) * 4096

\* the offset of the SIMSHeader magic number from the analysis version:
\* 272 bytes, PrimaryBeam, SecondaryBeam, Detectors
MagicAt == 272 + 552 + 192 + 808

\* the 70 integers of 'exit slit xl', written as 1 to 70
RECURSIVE XLBytes(_, _)
XLBytes(order, i) == IF i > 70 THEN << >> ELSE Pack32(order, i) \o XLBytes(order, i + 1)

ApnBlock(p, j) ==
    IF p.apn[j] = "apn"
    THEN <<Item(ApnAt(j), AnalParamNanoTok),
           Item(ApnAt(j) + 16, Pack32(p.order, p.apnv)),
           Item(ApnAt(j) + 16 + MagicAt, Pack32(p.order, p.magic))>>
    ELSE IF p.apn[j] = "bis"
    THEN <<Item(ApnAt(j), AnalParamNanoBisTok), Item(ApnAt(j) + 24 + 208, XLBytes(p.order, 1))>>
    ELSE << >>

RECURSIVE ApnItems(_, _)
ApnItems(p, j) ==
    IF j > Len(p.apn) THEN << >> ELSE ApnBlock(p, j) \o ApnItems(p, j + 1)

\* the sizes of a trolley, a phd and a BField record (_trolley, _phd and
\* _bfield skip more bytes from file version 4108 on)
TrolleySize(fv) == IF fv >= 4108 THEN 208 ELSE 192

PhdSize(fv) == IF fv >= 4108 THEN 48 ELSE 24

BFieldSize(fv) == 56 + 12 * TrolleySize(fv) + 12 * PhdSize(fv)

\* where NanoSIMSHeader starts behind a PolyList of one species in the
\* first list slot, and where BField k starts: 604 bytes of NanoSIMSHeader
\* and 948 skipped bytes further on
NanoAt(p) == SlotAt(1) + ListOffset + 4 + 144 + 4

BFieldAt(p, k) == NanoAt(p) + 604 + 948 + (k - 1) * BFieldSize(p.fv)

\* 'real trolley' and 'cameca trolley index' of trolley t (from 0) of
\* BField k
TrolleyItem(p, k, t, tr) ==
    Item(BFieldAt(p, k) + 56 + t * TrolleySize(p.fv) + 96,
         Pack32(p.order, tr.real) \o Pack32(p.order, tr.index))

\* the number of BFields in NanoSIMSHeader; the first of p.trolleys is
\* written as the first trolley of the first BField, the second as the last
\* trolley of the last BField
NanoItems(p) ==
    IF p.bf = 0 THEN << >>
    ELSE <<Item(NanoAt(p) + 96, Pack32(p.order, p.bf)),
           TrolleyItem(p, 1, 0, p.trolleys[1]),
           TrolleyItem(p, p.bf, 11, p.trolleys[2])>>

\* the Image header in the last 84 bytes of the header ('i 6h ...'); for
\* an isotopes header the number of ratios, 12 bytes into the last 176
ImageItems(p) ==
    (IF p.iso = 0 THEN << >> ELSE <<Item(p.hs - 176 + 12, Pack32(p.order, p.iso))>>)
    \o
    <<Item(p.hs - 84, Pack32(p.order, p.imgsize)),
      Item(p.hs - 84 + 6,
           Pack16(p.order, p.img.width) \o Pack16(p.order, p.img.height)
           \o Pack16(p.order, p.img.bpp) \o Pack16(p.order, p.img.masses)
           \o Pack16(p.order, p.img.planes))>>

\* where _presets starts in a file whose APN layout is <<"apn", "bis">>:
\* behind the 24 skipped bytes and the 488 bytes of _detectors2
PresetsAt == ApnAt(2) + 24 + 488

\* where preset k (1 to 4) starts: a padding block in front of a group
\* unless p.pre.path tells that a path starts there
PresetAt(p, k) ==
    PresetsAt + (IF p.pre.path[1] THEN 0 ELSE SlitSize)
    + (IF k >= 2 THEN SlitSize ELSE 0)
    + (IF k >= 3 THEN LensSize + (IF p.pre.path[2] THEN 0 ELSE SlitSize) ELSE 0)
    + (IF k >= 4 THEN SlitSize ELSE 0)

\* 'C:' and '/x'
PathC == <<67, 58>>

PathX == <<47, 120>>

\* entry i of the first preset: id, value, name
PresetEntry(p, i) ==
    Item(PresetAt(p, 1) + 520 + (i - 1) * 28,
         Pack32(p.order, p.pre.entries[i].id) \o Pack32(p.order, 100 + i)
         \o p.pre.entries[i].name)

\* the presets: the paths, the parameter counts p.pre.n and the entries
PresetItems(p) ==
    IF p.pre.n = << >> THEN << >>
    ELSE (IF p.pre.path[1] THEN <<Item(PresetAt(p, 1), PathC)>> ELSE << >>)
         \o (IF p.pre.path[2] THEN <<Item(PresetAt(p, 3), PathX)>> ELSE << >>)
         \o [k \in 1..4 |-> Item(PresetAt(p, k) + 516, Pack32(p.order, p.pre.n[k]))]
         \o [i \in 1..Len(p.pre.entries) |-> PresetEntry(p, i)]

\* the data behind the header
DataItems(p) == IF p.data = << >> THEN << >> ELSE <<Item(p.hs, p.data)>>

\* the items that start below the end of the file, cut at its end
RECURSIVE Clip(_, _)
Clip(items, size) ==
    IF items = << >> THEN << >>
    ELSE LET it == Head(items)
             rest == Clip(Tail(items), size)
         IN  IF it.at >= size \/ it.at < 0 THEN rest
             ELSE <<Item(it.at, SubSeq(it.b, 1, Min(Len(it.b), size - it.at)))>> \o rest

\* the file written from the parameters p
Build(p) ==
    [size |-> p.size,
     items |-> Clip(PreambleItems(p) \o CommonItems(p) \o MassItems(p)
                    \o ListItems(p, 1) \o NanoItems(p) \o ApnItems(p, 1)
                    \o PresetItems(p)
                    \o (IF p.hs >= ApnAt(Len(p.apn) + 1) THEN ImageItems(p) \o DataItems(p)
                        ELSE << >>),
                    p.size)]

\* bounds of the files considered
MaxListLen == 2

NSlots == 3

NApn == 3

\* the parameter entries written in a preset
MaxParams == 2

\* the channels of a mass table
MaxMasses == 3

\* the changes made through a copy
MaxEdits == 1

\* the calls of em_correct on one object
MaxCalls == 2

\* the calls of read_data on one reader
MaxReads == 2

\* the calls of rkeys and rkeys_path on one dictionary
MaxWalks == 3

\* the header size of a complete file
FullHeader == 32768

\* a complete little-endian image file (type 27) with one mass, a PolyList
\* of one species, an Anal_param_nano section and a 2 x 1 image of 16 bits
Default ==
    [order |-> "<", ft |-> 27, fv |-> 11, hs |-> FullHeader, size |-> FullHeader + 4,
     incl |-> 1, atype |-> << >>, labels |-> <<Str12C>>,
     slots |-> <<[kind |-> "poly", len |-> 1]>>,
     apn |-> <<"apn">>, apnv |-> 4, magic |-> SimsHeaderMagic,
     imgsize |-> ImageHdrSize, iso |-> 0, bf |-> 0, trolleys |-> << >>,
     pre |-> [path |-> <<FALSE, FALSE>>, n |-> << >>, entries |-> << >>],
     tix |-> << >>,
     img |-> [width |-> 2, height |-> 1, bpp |-> 2, masses |-> 1, planes |-> 1],
     data |-> <<1, 0, 2, 0>>]

\* file type codes, supported and not, as written in either byte order
TypeCodes == SupportedFileTypes \cup {-2, -1, 0, 20, 23, 34, 42, 100}

PreambleFiles ==
    {Build([Default EXCEPT !.order = o, !.ft = t]) :
        o \in {"<", ">"}, t \in TypeCodes}

\* what a list slot may hold: nothing, a PolyList of 0..MaxListLen species,
\* a ChampsList or an OffsetList of declared length 0 or 1
SlotChoices ==
    {[kind |-> "", len |-> 0]}
    \cup {[kind |-> "poly", len |-> n] : n \in 0..MaxListLen}
    \cup {[kind |-> k, len |-> n] : k \in {"champs", "offset"}, n \in 0..1}

ListFiles ==
    {Build([Default EXCEPT !.slots = sl]) : sl \in [1..NSlots -> SlotChoices]}

\* analysis types: none, 'RTI', 'hmr', 'trolley step scan', 'x'
AnalysisTypes == {<< >>, StrRTI, StrHmr, StrTss, StrX}

NoPolyFiles ==
    {Build([Default EXCEPT !.ft = t, !.atype = a, !.slots = sl]) :
        t \in SupportedFileTypes, a \in AnalysisTypes,
        sl \in {<< >>, <<[kind |-> "champs", len |-> 0]>>}}

ApnFiles ==
    {Build([Default EXCEPT !.apn = a,
                           !.slots = <<[kind |-> "poly", len |-> 0],
                                       [kind |-> "poly", len |-> 1]>>]) :
        a \in [1..NApn -> {"", "apn", "bis"}]}

\* files cut short, and files that declare another header size
ShortFiles ==
    {Build([Default EXCEPT !.size = n]) : n \in {0, 6, 10, 12, 500, 3000, 9000}}
    \cup {Build([Default EXCEPT !.hs = n]) : n \in {-5, -1, 0, 100, 3000}}
    \cup {Build([Default EXCEPT !.size = n, !.apn = << >>, !.ft = t]) :
              n \in {3000, 5000}, t \in {22, 27}}

\* analysis versions 3 to 6, with and without the Anal_param_nano and
\* Anal_param_nano_bis sections, and values found where the SIMSHeader
\* magic number belongs
ApnLayouts == {<< >>, <<"apn">>, <<"bis">>, <<"apn", "bis">>, <<"bis", "apn">>}

VersionFiles ==
    {Build([Default EXCEPT !.apnv = v, !.apn = a, !.magic = g, !.ft = t]) :
        v \in 3..6, a \in ApnLayouts, g \in {SimsHeaderMagic, SimsHeaderMagic + 1, 0},
        t \in {22, 27}}

\* every supported file type with a well-formed and a malformed Image
\* header, with 0 to 2 isotope ratios, and with and without the
\* Anal_param_nano section in front
TailFiles ==
    {Build([Default EXCEPT !.ft = t, !.imgsize = s, !.iso = r, !.apn = a]) :
        t \in SupportedFileTypes, s \in {ImageHdrSize, ImageHdrSize - 1, 0},
        r \in 0..2, a \in {<< >>, <<"apn">>}}

\* the label of mass k: '12C', '13C', '14C', ...
LabelOf(k) == <<49, 49 + k, 67>>

\* the 8 bytes of the float64 numbered k (2.0 + k/8 for k < 8), in the given
\* byte order
F64(order, k) ==
    IF order = "<" THEN <<0, 0, 0, 0, 0, 0, k, 64>> ELSE <<64, k, 0, 0, 0, 0, 0, 0>>

\* one block of a series: the number of points, that many x values, that
\* many y values; the values of block b are numbered from 16 * b on
SeriesBlockBytes(order, b, n) ==
    Pack32(order, n)
    \o [i \in 1..(8 * n) |-> F64(order, 16 * b + (i - 1) \div 8)[((i - 1) % 8) + 1]]
    \o [i \in 1..(8 * n) |-> F64(order, 16 * b + 8 + (i - 1) \div 8)[((i - 1) % 8) + 1]]

RECURSIVE SeriesBlocks(_, _, _)
SeriesBlocks(order, pts, b) ==
    IF b > Len(pts) THEN << >>
    ELSE SeriesBlockBytes(order, b, pts[b]) \o SeriesBlocks(order, pts, b + 1)

\* a series: the number of blocks, then the blocks with pts[b] points each
SeriesBytes(order, pts) == Pack32(order, Len(pts)) \o SeriesBlocks(order, pts, 1)

\* bounds of the series written
MaxTraces == 2

MaxPoints == 2

TracePoints == UNION {[1..n -> 0..MaxPoints] : n \in 1..MaxTraces}

\* files of the series types, of type 22 and of an image type that hold a
\* series behind the header, with the data flag set and not set
SeriesFiles ==
    {Build([Default EXCEPT !.ft = t, !.incl = i, !.apn = << >>,
                           !.labels = [k \in 1..Len(pts) |-> LabelOf(k)],
                           !.data = SeriesBytes("<", pts),
                           !.size = FullHeader + Len(SeriesBytes("<", pts))]) :
        t \in {21, 26, 31, 35, 22, 27}, i \in {0, 1}, pts \in TracePoints}

\* the pixel stream of an image: value number k (from 0) is k + 1
PixelBytes(order, bpp, count) ==
    [i \in 1..(bpp * count) |->
        (IF bpp = 2 THEN Pack16(order, (i - 1) \div bpp + 1)
         ELSE Pack32(order, (i - 1) \div bpp + 1))[((i - 1) % bpp) + 1]]

\* the largest number of planes, species, rows and columns of an image
MaxDim == 2

\* image files of every shape up to MaxDim, of 2 and 4 bytes per pixel, in
\* both byte orders, with the data flag set and not set
ImageFiles ==
    {Build([Default EXCEPT !.order = o, !.incl = i, !.apn = << >>,
                           !.labels = [k \in 1..sh[2] |-> LabelOf(k)],
                           !.img = [width |-> sh[4], height |-> sh[3], bpp |-> b,
                                    masses |-> sh[2], planes |-> sh[1]],
                           !.data = PixelBytes(o, b, sh[1] * sh[2] * sh[3] * sh[4]),
                           !.size = FullHeader + b * sh[1] * sh[2] * sh[3] * sh[4]]) :
        o \in {"<", ">"}, i \in {0, 1}, b \in {2, 4},
        sh \in [1..4 -> 1..MaxDim]}

\* what the 'real trolley' and 'cameca trolley index' fields may hold
TrolleyChoices == {[real |-> r, index |-> i] : r \in {0, 1}, i \in {-2, -1, 0, 3}}

\* files with one or two BFields, of a file version below and from 4108 on
TrolleyFiles ==
    {Build([Default EXCEPT !.fv = v, !.bf = n, !.trolleys = tr, !.apn = << >>]) :
        v \in {11, 4108}, n \in 1..2, tr \in [1..2 -> TrolleyChoices]}

\* the parameter counts of the four presets: none, a few, and more than a
\* slit block (20) or a lens block (111) has room for
PresetCounts ==
    {<<0, 0, 0, 0>>, <<2, 1, 0, 1>>, <<-1, 0, 25, 0>>, <<25, 0, 0, 112>>}

\* the names and ids of parameter entries: '' and 'a', 1 and 2
EntryChoices == {[id |-> i, name |-> nm] : i \in {1, 2}, nm \in {<< >>, <<97>>}}

\* files of analysis version 5 with presets: with and without a path at the
\* start of either group, with two entries written in the first preset, and
\* with a header that ends inside or just behind the presets
PresetFiles ==
    {Build([Default EXCEPT !.apnv = 5, !.apn = <<"apn", "bis">>,
                           !.pre = [path |-> pt, n |-> c, entries |-> << >>]]) :
        pt \in [1..2 -> BOOLEAN], c \in PresetCounts}
    \cup {Build([Default EXCEPT !.apnv = 5, !.apn = <<"apn", "bis">>,
                               !.pre = [path |-> <<TRUE, FALSE>>,
                                        n |-> <<k, 0, 0, 0>>, entries |-> e]]) :
              k \in 1..MaxParams, e \in [1..MaxParams -> EntryChoices]}
    \cup {Build([Default EXCEPT !.apnv = 5, !.apn = <<"apn", "bis">>,
                               !.hs = n, !.size = n,
                               !.pre = [path |-> pt, n |-> <<0, 0, 0, 0>>,
                                        entries |-> << >>]]) :
              pt \in [1..2 -> BOOLEAN],
              n \in {PresetsAt + 4, PresetsAt + SlitSize + LensSize + 2,
                     PresetsAt + 2 * SlitSize + LensSize + 6,
                     PresetsAt + 2 * (SlitSize + LensSize),
                     PresetsAt + 2 * (SlitSize + LensSize) + SlitSize + 100}}

\* sequences of up to n elements of S
SeqsUpTo(S, n) == UNION {[1..k -> S] : k \in 0..n}

\* mass tables of 0 to MaxMasses channels with labels '12C' and '13C',
\* without and with the trolley indices 8, 8, 2 written, of a type with
\* short and of the type with long entries
MassFiles ==
    {Build([Default EXCEPT !.ft = t, !.labels = ls, !.tix = x, !.apn = << >>]) :
        t \in {27, 31}, ls \in SeqsUpTo({LabelOf(1), LabelOf(2)}, MaxMasses),
        x \in {<< >>, <<8, 8, 2>>}}

Files ==
    MassFiles \cup PreambleFiles \cup ListFiles \cup NoPolyFiles \cup ApnFiles \cup ShortFiles
    \cup VersionFiles \cup TailFiles \cup SeriesFiles \cup ImageFiles
    \cup TrolleyFiles \cup PresetFiles

\* file names: '', 'a.im', 'a.im.gz', 'a.tar', 'a.tar.gz', 'a.im.zip'
NoName == << >>

PlainName == <<"a", ".im">>

Names ==
    {NoName, PlainName, <<"a", ".im", ".gz">>, <<"a", ".tar">>,
     <<"a", ".tar", ".gz">>, <<"a", ".im", ".zip">>}

\* the files opened under every name
NamedFiles ==
    {Build(Default), Build([Default EXCEPT !.ft = 34]),
     Build([Default EXCEPT !.slots = << >>]), Build([Default EXCEPT !.hs = -5]),
     Build([Default EXCEPT !.size = 10]),
     Build([Default EXCEPT !.size = FullHeader + 5, !.data = <<1, 0, 2, 0, 3>>])}
    \cup {Build([Default EXCEPT !.ft = t, !.apn = << >>,
                               !.labels = [k \in 1..Len(pts) |-> LabelOf(k)],
                               !.data = SeriesBytes("<", pts),
                               !.size = FullHeader + Len(SeriesBytes("<", pts))]) :
              t \in {21, 35}, pts \in {<<0>>, <<1>>, <<2, 1>>}}

---------------------------------------------------------------------------
(* SIMS.__init__: open, peek, read_header, read_data, close.               *)

NoStored == [data |-> NoData, corr |-> NoData]

\* no copy made, no object corrected, no rkeys call made
NoCopy == [made |-> FALSE, edits |-> 0]

NoObject == [made |-> FALSE, calls |-> 0]

NoCalls == [made |-> FALSE]

Init ==
    /\ \/ file \in Files /\ filename = PlainName
       \/ file \in NamedFiles /\ filename \in Names
    /\ pc = "new"
    /\ fh = "unset"
    /\ fh_archive = "unset"
    /\ fhpos = 0
    /\ nread = 0
    /\ header = EmptyDict
    /\ hdrBefore = EmptyDict
    /\ bo = ""
    /\ data = NoStored
    /\ clone = NoCopy
    /\ emobj = NoObject
    /\ rkstate = NoCalls
    /\ exc = NoExc
    /\ stages = << >>
    /\ marks = NoMarks
    /\ events = << >>
    /\ warns = << >>

\* a variant in which the constructor goes on after a failed stage
StageEndAlways(e, next) == next

\* where SIMS.__init__ stands after a stage that ended with e: an exception
\* leaves the constructor at once (lines 1463-1466 have no handler)
StageEnd(e, next) == IF e = NoExc THEN next ELSE "raised"

Stage(name, e) == [name |-> name, ok |-> e = NoExc]

\* `if not filename: return` (lines 1455-1456)
SIMS_return ==
    /\ pc = "new"
    /\ filename = NoName
    /\ pc' = "done"
    /\ UNCHANGED <<filename, file, fh, fh_archive, fhpos, nread, header, hdrBefore,
                   bo, data, exc, stages, marks, events, warns>>
    /\ UNCHANGED utils

\* TransparentOpen.__init__, self.fh.seek(0), SIMSReader.__init__
\* (lines 1458-1461); the named file is taken to exist
SIMS_open ==
    /\ pc = "new"
    /\ filename # NoName
    /\ fh' = "open"
    /\ fh_archive' = ArchiveAfterOpen(filename)
    /\ fhpos' = 0
    /\ header' = EmptyDict
    /\ data' = NoStored
    /\ bo' = ""
    /\ pc' = "opened"
    /\ UNCHANGED <<filename, file, nread, hdrBefore, exc, stages, marks, events, warns>>
    /\ UNCHANGED utils

\* what a stage that took n bytes and ended with e leaves in the constructor
StageDone(name, next, e, pos, n, w) ==
    /\ fhpos' = pos
    /\ nread' = nread + n
    /\ exc' = e
    /\ warns' = warns \o w
    /\ stages' = Append(stages, Stage(name, e))
    /\ pc' = StageEnd(e, next)
    /\ hdrBefore' = header

PeekDone(r) ==
    /\ header' = r.h
    /\ bo' = r.bo
    /\ StageDone("peek", "peeked", r.exc, r.pos, r.n, << >>)

\* self.peek() (line 1463)
SIMS_peek ==
    /\ pc = "opened"
    /\ PeekDone(Peek(file, header))
    /\ UNCHANGED <<filename, file, fh, fh_archive, data, marks, events>>
    /\ UNCHANGED utils

ReadHeaderDone(r) ==
    /\ header' = r.h
    /\ marks' = r.marks
    /\ events' = r.ev
    /\ StageDone("read_header", "header", r.exc, r.pos, r.n, r.warn)

\* self.read_header() (line 1464)
SIMS_read_header ==
    /\ pc = "peeked"
    /\ ReadHeaderDone(ReadHeader(file, StreamKind(filename), header, bo))
    /\ UNCHANGED <<filename, file, fh, fh_archive, bo, data>>
    /\ UNCHANGED utils

ReadDataDone(r) ==
    /\ data' = [data |-> r.data, corr |-> r.corr]
    /\ StageDone("read_data", "data", r.exc, r.pos, r.n, r.warn)

\* self.read_data() (line 1465)
SIMS_read_data ==
    /\ pc = "header"
    /\ \E kind \in DataKinds(StreamKind(filename)) :
           ReadDataDone(ReadData(file, kind, header, bo, fhpos))
    /\ UNCHANGED <<filename, file, fh, fh_archive, header, bo, marks, events>>
    /\ UNCHANGED utils

\* self.close() (line 1466): TransparentOpen.close
SIMS_close ==
    /\ pc = "data"
    /\ fh' = "closed"
    /\ fh_archive' = ArchiveAfterClose(fh_archive)
    /\ pc' = "done"
    /\ UNCHANGED <<filename, file, fhpos, nread, header, hdrBefore, bo, data, exc,
                   stages, marks, events, warns>>
    /\ UNCHANGED utils

\* a variant of copy.deepcopy that hands out the object itself
DeepCopyShared(v) == [ref |-> "self", val |-> v]

\* copy.deepcopy(v): a new object equal to v that nothing else refers to.
\* ref tells whose object a reference points at: "self" the original's,
\* "own" an object of the copy, "none" no object (the attribute is not set)
DeepCopyValue(v) == [ref |-> "own", val |-> v]

\* self.__dict__ of a SIMS object whose fh is h: the constructor sets no
\* attribute when it returns on an empty file name (lines 1455-1456)
Attributes(h) ==
    IF h = "unset" THEN {}
    ELSE {"fh", "fh_archive", "filename", "header", "data", "_data_corr", "_bo"}

\* SIMSReader.__deepcopy__: type(self)(None) sets no attribute; then every
\* attribute of self is deep-copied, except that fh and fh_archive become
\* None
DeepCopy(attrs, h, dat) ==
    [attrs |-> attrs,
     fh |-> IF "fh" \in attrs THEN "None" ELSE "unset",
     fh_archive |-> IF "fh_archive" \in attrs THEN "None" ELSE "unset",
     header |-> IF "header" \in attrs THEN DeepCopyValue(h) ELSE [ref |-> "none", val |-> h],
     data |-> IF "data" \in attrs THEN DeepCopyValue(dat) ELSE [ref |-> "none", val |-> dat]]

\* s2 = s.copy() on the finished object; orig keeps what the original held
\* at that moment, edits counts the changes made through the copy
SIMS_copy ==
    /\ pc = "done"
    /\ ~clone.made
    /\ clone' = [obj |-> DeepCopy(Attributes(fh), header, data), made |-> TRUE,
                 orig |-> [header |-> header, data |-> data, fh |-> fh], edits |-> 0]
    /\ UNCHANGED <<filename, file, pc, fh, fh_archive, fhpos, nread, header, hdrBefore,
                   bo, data, exc, stages, marks, events, warns, emobj, rkstate>>

\* changes of a header: s2.header[key] = val, del s2.header[key]
HeaderEdits ==
    {[op |-> "set", key |-> "file type", val |-> 0],
     [op |-> "del", key |-> "header size", val |-> 0]}

EditHeader(h, e) ==
    IF e.op = "set" THEN Put(h, e.key, e.val)
    ELSE [k \in DOMAIN h \ {e.key} |-> h[k]]

\* s2.data[...] = 0 in place: every value of the array is replaced
EditData(dat) ==
    [dat EXCEPT !.data.vals = [i \in DOMAIN dat.data.vals |-> << >>]]

\* a change of the copy's header: it lands in the object the copy's
\* reference points at
Copy_edit_header ==
    /\ clone.made
    /\ clone.obj.header.ref # "none"
    /\ clone.edits < MaxEdits
    /\ \E e \in HeaderEdits :
           /\ clone' = [clone EXCEPT !.edits = @ + 1,
                                     !.obj.header.val = EditHeader(@, e)]
           /\ header' = IF clone.obj.header.ref = "self" THEN EditHeader(header, e)
                        ELSE header
    /\ UNCHANGED <<filename, file, pc, fh, fh_archive, fhpos, nread, hdrBefore,
                   bo, data, exc, stages, marks, events, warns, emobj, rkstate>>

\* a change of the copy's data array in place
Copy_edit_data ==
    /\ clone.made
    /\ clone.obj.data.ref # "none"
    /\ clone.obj.data.val.data.kind # "None"
    /\ clone.edits < MaxEdits
    /\ clone' = [clone EXCEPT !.edits = @ + 1, !.obj.data.val = EditData(@)]
    /\ data' = IF clone.obj.data.ref = "self" THEN EditData(data) ELSE data
    /\ UNCHANGED <<filename, file, pc, fh, fh_archive, fhpos, nread, header, hdrBefore,
                   bo, exc, stages, marks, events, warns, emobj, rkstate>>

Next ==
    \/ SIMS_return
    \/ SIMS_open
    \/ SIMS_peek
    \/ SIMS_read_header
    \/ SIMS_read_data
    \/ SIMS_close
    \/ SIMS_copy
    \/ Copy_edit_header
    \/ Copy_edit_data

Spec == Init /\ [][Next]_vars

----------------------------------------------------------------------------
(* A caller that drives SIMSReader itself: r = SIMSReader(fh), r.peek(),   *)
(* r.read_header(), and then r.read_data() any number of times, with other *)
(* reads and seeks on fh in between.                                       *)

\* where the caller's other reads leave the stream: at the end of the
\* header, inside the data, at the end of the file
StreamPositions(f, h) ==
    {h["header size"], h["header size"] + 4, f.size}

\* fh = open(name, 'rb'); r = SIMSReader(fh)
ReaderInit ==
    /\ file \in SeriesFiles \cup ImageFiles
    /\ filename = PlainName
    /\ pc = "opened"
    /\ fh = "open"
    /\ fh_archive = "unset"
    /\ fhpos = 0
    /\ nread = 0
    /\ header = EmptyDict
    /\ hdrBefore = EmptyDict
    /\ bo = ""
    /\ data = NoStored
    /\ clone = NoCopy
    /\ emobj = NoObject
    /\ rkstate = NoCalls
    /\ exc = NoExc
    /\ stages = << >>
    /\ marks = NoMarks
    /\ events = << >>
    /\ warns = << >>

\* the read_data stages run so far
DataReads == Cardinality({i \in 1..Len(stages) : stages[i].name = "read_data"})

\* what a read_data call that ended with r leaves: self.data and
\* self._data_corr are assigned at the end of a strategy only
ReaderDataDone(r) ==
    /\ data' = IF r.exc = NoExc /\ header["data included"] /\ header["file type"] # 22
               THEN [data |-> r.data, corr |-> r.corr]
               ELSE data
    /\ fhpos' = r.pos
    /\ nread' = nread + r.n
    /\ exc' = r.exc
    /\ warns' = warns \o r.warn
    /\ stages' = Append(stages, Stage("read_data", r.exc))
    /\ hdrBefore' = header
    /\ pc' = "data"

\* r.read_data(), the first time or again; the caller catches what it raises
Reader_read_data ==
    /\ pc \in {"header", "data"}
    /\ DataReads < MaxReads
    /\ ReaderDataDone(ReadData(file, StreamKind(filename), header, bo, fhpos))
    /\ UNCHANGED <<filename, file, fh, fh_archive, header, bo, marks, events>>
    /\ UNCHANGED utils

\* other reads on the stream between two calls
Stream_seek ==
    /\ pc \in {"header", "data"}
    /\ \E p \in StreamPositions(file, header) : p # fhpos /\ fhpos' = p
    /\ UNCHANGED <<filename, file, pc, fh, fh_archive, nread, header, hdrBefore,
                   bo, data, exc, stages, marks, events, warns>>
    /\ UNCHANGED utils

ReaderNext ==
    \/ SIMS_peek
    \/ SIMS_read_header
    \/ Reader_read_data
    \/ Stream_seek

ReaderSpec == ReaderInit /\ [][ReaderNext]_vars

TypeOK ==
    /\ pc \in {"new", "opened", "peeked", "header", "data", "done", "raised"}
    /\ fh \in {"unset", "open", "closed"}
    /\ fh_archive \in {"unset", "None", "open", "closed"}
    /\ bo \in {"", "<", ">"}

---------------------------------------------------------------------------
(* Properties.  Shared vocabulary first.                                   *)

Ran(name) == \E i \in 1..Len(stages) : stages[i].name = name

\* the stage that ran last is the named one
LastIs(name) == stages # << >> /\ stages[Len(stages)].name = name

LastFailed == stages # << >> /\ ~stages[Len(stages)].ok

\* bytes 4-8 of the file under either byte order
FieldLE == I32("<", Bytes(file, 4, 4))

FieldBE == I32(">", Bytes(file, 4, 4))

\* the file holds a whole 12-byte preamble
FullPreamble == file.size >= 12

IsPrefix(a, b) == Len(a) <= Len(b) /\ \A i \in 1..Len(a) : a[i] = b[i]

\* the decode steps of the lists, and of NanoSIMSHeader
IsListEvent(e) == e.op \in {"poly", "champs", "offset"}

ListEvents == SelectSeq(events, IsListEvent)

IsNanoEvent(e) == e.op = "nano"

NanoEvents == SelectSeq(events, IsNanoEvent)

ListOps == [i \in 1..Len(ListEvents) |-> ListEvents[i].op]

\* the main header decoded, so read_header came to the list section
MainDone == events # << >> /\ events[1].op = "main"

\* the first byte behind a list whose length field is at e.at: the length,
\* 144 bytes per species of a PolyList, and 4 bytes more
ListEnd(e) == e.at + 4 + (IF e.op = "poly" THEN 144 * Max(0, e.n) ELSE 0) + 4

\* the documented marker configurations and the decode order of each;
\* << >> for every other configuration
Documented ==
    IF marks.poly < 0 THEN << >>
    ELSE IF marks.champs < 0 /\ marks.offset < 0 THEN <<"poly">>
    ELSE IF marks.champs >= 0 /\ marks.offset >= 0
            /\ marks.poly < marks.champs /\ marks.champs < marks.offset
    THEN <<"poly", "champs", "offset">>
    ELSE IF marks.champs >= 0 /\ marks.offset >= 0
            /\ marks.champs < marks.offset /\ marks.offset < marks.poly
    THEN <<"champs", "offset", "poly">>
    ELSE << >>

---------------------------------------------------------------------------
(* C1.  peek takes the byte order from bytes 4-8: a supported code written *)
(* little-endian gives '<', written big-endian gives '>', and a field that *)
(* is out of the range of file-type codes under both byte orders (such as  *)
(* a negative one) ends in TypeError 'Cannot determine file endianess.'    *)
(* and in nothing else.  The range is read as widely as it can be: 0 up to *)
(* the largest supported code.                                             *)

OutOfRange(v) == v < 0 \/ v > MaxSupported

C1_ByteOrderOrTypeError ==
    (LastIs("peek") /\ FullPreamble) =>
        /\ FieldLE \in SupportedFileTypes =>
               (Has(header, "byte order") /\ header["byte order"] = "<" /\ bo = "<")
        /\ FieldBE \in SupportedFileTypes =>
               (Has(header, "byte order") /\ header["byte order"] = ">" /\ bo = ">")
        /\ (OutOfRange(FieldLE) /\ OutOfRange(FieldBE)) =>
               (exc.type = "TypeError" /\ exc.msg = "Cannot determine file endianess.")

---------------------------------------------------------------------------
(* C2.  As stated: peek on any 12-byte preamble whose file-type code is    *)
(* not a supported one ends in NotImplementedError, with 12 bytes read.    *)

C2_UnsupportedAlwaysNotImplemented ==
    (LastIs("peek") /\ FullPreamble
     /\ FieldLE \notin SupportedFileTypes /\ FieldBE \notin SupportedFileTypes) =>
        (exc.type = "NotImplementedError" /\ nread = 12)

\* the byte order peek can settle on, and the code it then decodes
OrderKnown == FieldLE <= MaxSupported \/ FieldBE <= MaxSupported

DecodedType == IF FieldLE <= MaxSupported THEN FieldLE ELSE FieldBE

(* C2, amended.  peek on a 12-byte preamble ends in NotImplementedError    *)
(* when the field is no more than 41 under one of the byte orders and the  *)
(* code decoded under the first such order (little-endian first) is not a  *)
(* supported one; it ends in TypeError when the field exceeds 41 under     *)
(* both.  Either way 12 bytes have been read, and no more.                 *)
C2_UnsupportedOrUnknownOrder ==
    (LastIs("peek") /\ FullPreamble) =>
        /\ (OrderKnown /\ DecodedType \notin SupportedFileTypes) =>
               /\ exc.type = "NotImplementedError"
               /\ pc = "raised"
               /\ nread = 12 /\ fhpos = 12
        /\ ~OrderKnown =>
               /\ exc.type = "TypeError"
               /\ pc = "raised"
               /\ nread = 12 /\ fhpos = 12
        /\ (OrderKnown /\ DecodedType \in SupportedFileTypes) => exc = NoExc

C2_Witness ==
    /\ LastIs("peek") /\ FullPreamble
    /\ FieldLE = 34
    /\ exc.type = "NotImplementedError"
    /\ nread = 12

---------------------------------------------------------------------------
(* C3.  Whenever SIMS(filename) has ended, by returning or by an           *)
(* exception of peek, read_header or read_data, the stream and the outer   *)
(* archive handle are not open.                                            *)

C3_ClosedOnEveryExit ==
    pc \in {"done", "raised"} => (fh # "open" /\ fh_archive # "open")

---------------------------------------------------------------------------
(* C4.  When peek or read_header fails, the header mapping is as it was    *)
(* before the failing call.                                                *)

C4_NoPartialHeader ==
    ((LastIs("peek") \/ LastIs("read_header")) /\ LastFailed) => header = hdrBefore

---------------------------------------------------------------------------
(* C5.  The stages run in the order peek, read_header, read_data, each     *)
(* once, and a stage runs only when the one before it succeeded.           *)

StageNames == <<"peek", "read_header", "read_data">>

C5_StageOrder ==
    /\ Len(stages) <= Len(StageNames)
    /\ \A i \in 1..Len(stages) :
           /\ stages[i].name = StageNames[i]
           /\ i > 1 => stages[i - 1].ok
    /\ pc = "raised" <=> LastFailed

C5_Witness ==
    /\ pc = "raised"
    /\ Len(stages) = 2
    /\ stages[1].ok
    /\ ~stages[2].ok

---------------------------------------------------------------------------
(* C6.  With the PolyList marker found and the markers in a documented     *)
(* configuration, read_header decodes the lists in the order of that       *)
(* configuration (PolyList alone, and then no ChampsList or OffsetList     *)
(* section; PolyList, ChampsList, OffsetList; ChampsList, OffsetList,      *)
(* PolyList), each at its marker position + 16, a list only after the one  *)
(* before it was stored; and NanoSIMSHeader is decoded exactly when all    *)
(* of them were stored, starting at the first byte behind the last one.    *)

Stored(op) == Has(header, ListKey(op))

C6_ListBranches ==
    (MainDone /\ Documented # << >>) =>
        /\ ListEvents # << >>
        /\ IsPrefix(ListOps, Documented)
        /\ \A i \in 1..Len(ListEvents) :
               /\ ListEvents[i].at = marks[ListEvents[i].op] + 16
               /\ i < Len(ListEvents) => Stored(ListEvents[i].op)
        /\ \A op \in {"poly", "champs", "offset"} :
               Stored(op) => \E i \in 1..Len(ListOps) : ListOps[i] = op
        /\ (\A i \in 1..Len(Documented) : Stored(Documented[i])) <=> NanoEvents # << >>
        /\ NanoEvents # << >> =>
               /\ ListOps = Documented
               /\ Len(NanoEvents) = 1
               /\ NanoEvents[1].at = ListEnd(ListEvents[Len(ListEvents)])

C6_Witness ==
    /\ MainDone
    /\ Documented = <<"champs", "offset", "poly">>
    /\ NanoEvents # << >>
    /\ Len(header["PolyList"]) = 2
    /\ header["ChampsList"] = << >>
    /\ NanoEvents[1].at = marks.poly + 16 + 4 + 2 * 144 + 4

---------------------------------------------------------------------------
(* C7.  With the PolyList marker found and the markers in no documented    *)
(* configuration, read_header fails with 'An unknown order of the          *)
(* Poly/Champs/Offset Lists occured.' and decodes no list.                 *)

C7_OtherOrdersAmbiguous ==
    (MainDone /\ marks.poly >= 0 /\ Documented = << >>) =>
        /\ exc.type = "NotImplementedError"
        /\ exc.msg = "An unknown order of the Poly/Champs/Offset Lists occured."
        /\ ListEvents = << >>

---------------------------------------------------------------------------
(* C8.  Every ChampsList or OffsetList whose length field read_header      *)
(* reads: a length above 0 ends read_header there with 'List is non-null,  *)
(* don't know how to read.', nothing stored for the list and nothing       *)
(* decoded behind it; a length of 0 stores an empty list and the decode    *)
(* goes on to its next step.                                               *)

C8_NonEmptyListFails ==
    \A i \in 1..Len(events) :
        events[i].op \in {"champs", "offset"} =>
            /\ events[i].n >= 0 => events[i].n = I32(bo, Bytes(file, events[i].at, 4))
            /\ events[i].n > 0 =>
                   /\ i = Len(events)
                   /\ pc = "raised"
                   /\ exc.type = "NotImplementedError"
                   /\ exc.msg = "List is non-null, don't know how to read."
                   /\ ~Stored(events[i].op)
            /\ events[i].n = 0 =>
                   /\ Stored(events[i].op)
                   /\ header[ListKey(events[i].op)] = << >>
                   /\ i < Len(events)

C8_Witness ==
    /\ marks.offset >= 0
    /\ \E i \in 1..Len(events) :
           /\ events[i].op = "offset"
           /\ events[i].at = marks.offset + 16
           /\ events[i].n = 1
    /\ header["ChampsList"] = << >>
    /\ exc.type = "NotImplementedError"

---------------------------------------------------------------------------
(* C9.  With no PolyList marker found, read_header goes on only when the   *)
(* analysis type ends in 'rti' or the file type is 35, 216 bytes behind    *)
(* the main header, or when the file type is 31, 120 bytes behind it for   *)
(* 'hmr' and 'trolley step scan' and 600 bytes otherwise; in every other   *)
(* case it fails with 'No PolyList marker found in header' and             *)
(* NanoSIMSHeader is not decoded.                                          *)

C9_Rti == EndsWith(header["analysis type"], StrRti) \/ header["file type"] = 35

C9_Step ==
    \/ EndsWith(header["analysis type"], StrHmr)
    \/ EndsWith(header["analysis type"], StrTss)

C9_NoPolyList ==
    (MainDone /\ marks.poly < 0) =>
        /\ ListEvents = << >>
        /\ C9_Rti =>
               (Len(NanoEvents) = 1 /\ NanoEvents[1].at = events[1].at + 216)
        /\ (~C9_Rti /\ header["file type"] = 31 /\ C9_Step) =>
               (Len(NanoEvents) = 1 /\ NanoEvents[1].at = events[1].at + 120)
        /\ (~C9_Rti /\ header["file type"] = 31 /\ ~C9_Step) =>
               (Len(NanoEvents) = 1 /\ NanoEvents[1].at = events[1].at + 600)
        /\ (~C9_Rti /\ header["file type"] # 31) =>
               /\ NanoEvents = << >>
               /\ ~Has(header, "NanoSIMSHeader")
               /\ pc = "raised"
               /\ exc.type = "NotImplementedError"
               /\ exc.msg = "No PolyList marker found in header"

C9_Witness ==
    /\ MainDone /\ marks.poly < 0
    /\ header["file type"] = 31
    /\ header["analysis type"] = StrTss
    /\ NanoEvents # << >>
    /\ NanoEvents[1].at = events[1].at + 120

---------------------------------------------------------------------------
(* C10.  The marker positions read_header uses are, over the header bytes  *)
(* it read: the last occurrence of the Poly_list, Champs_list and          *)
(* Offset_list tokens, the first occurrence of the Anal_param_nano and     *)
(* Anal_param_nano_bis tokens, -1 for a token that does not occur; and no  *)
(* occurrence of the Anal_param_nano_bis token is the Anal_param_nano      *)
(* position.                                                               *)

\* the offsets of the bytes written into the file (all others are zero, and
\* no token starts with a zero)
Placed ==
    UNION { (file.items[i].at)..(file.items[i].at + Len(file.items[i].b) - 1) :
            i \in DOMAIN file.items }

\* the length of the header buffer read_header searched
HdrLen == ReadLen(file, StreamKind(filename), header["header size"])

Occurrences(tok) == {p \in Placed : TokenAt(file, HdrLen, tok, p)}

LastOf(S) == IF S = {} THEN -1 ELSE SetMax(S)

FirstOf(S) == IF S = {} THEN -1 ELSE SetMin(S)

HeaderSearched == Ran("read_header") /\ Has(header, "header size") /\ HdrLen >= 0

C10_MarkerTieBreak ==
    HeaderSearched =>
        /\ marks.poly = LastOf(Occurrences(PolyListTok))
        /\ marks.champs = LastOf(Occurrences(ChampsListTok))
        /\ marks.offset = LastOf(Occurrences(OffsetListTok))
        /\ marks.apn = FirstOf(Occurrences(AnalParamNanoTok))
        /\ marks.bis = FirstOf(Occurrences(AnalParamNanoBisTok))
        /\ marks.apn \notin Occurrences(AnalParamNanoBisTok)

C10_Witness ==
    /\ HeaderSearched
    /\ Cardinality(Occurrences(PolyListTok)) = 2
    /\ marks.poly = SetMax(Occurrences(PolyListTok))
    /\ Cardinality(Occurrences(AnalParamNanoTok)) = 2
    /\ marks.apn = SetMin(Occurrences(AnalParamNanoTok))
    /\ marks.bis >= 0
    /\ marks.bis < marks.apn

---------------------------------------------------------------------------
(* C11.  When read_header comes to the Anal_param_nano step and the marker *)
(* was not found, it warns 'Anal_param_nano not found in header', adds     *)
(* none of PrimaryBeam, SecondaryBeam, Detectors, SIMSHeader and Presets   *)
(* to the header, and goes on to the tail section of the file type; it     *)
(* ends without an exception unless the tail block itself is malformed.    *)

\* NanoSIMSHeader and every BField are decoded, so read_header came to the
\* Anal_param_nano step
BFieldsDone ==
    /\ Ran("read_header")
    /\ Has(header, "NanoSIMSHeader")
    /\ Has(header, "BFields")
    /\ Len(header["BFields"]) = Max(0, header["NanoSIMSHeader"].bfields)

IsTailEvent(e) == e.op = "tail"

TailEvents == SelectSeq(events, IsTailEvent)

ApnSections == {"PrimaryBeam", "SecondaryBeam", "Detectors", "SIMSHeader", "Presets"}

ApnWarning == "Anal_param_nano not found in header"

\* the stage read_header ended without an exception
HeaderOk == \E i \in 1..Len(stages) : stages[i].name = "read_header" /\ stages[i].ok

\* the file types without a tail block, and those with an Image block
NoTailTypes == {21, 22, 31, 35}

\* the Image block in the last 84 bytes of the buffer declares its size
ImageWellFormed ==
    HdrLen >= ImageHdrSize /\ I32(bo, Bytes(file, HdrLen - ImageHdrSize, 4)) = ImageHdrSize

---------------------------------------------------------------------------
(* C12.  The header holds a Presets section, or Detector 6 / Detector 7    *)
(* records, only when the analysis version is at least 5 and the           *)
(* Anal_param_nano_bis marker was found; with an analysis version of 5 or  *)
(* more and no such marker it holds neither.                               *)

BisSections ==
    {k \in {"Presets"} : Has(header, k)}
    \cup (IF Has(header, "Detectors") THEN header["Detectors"] \cap Detectors2Keys ELSE {})

C12_BisGated ==
    (Ran("read_header") /\ Has(header, "SIMSHeader")) =>
        (BisSections # {} => (header["analysis version"] >= 5 /\ marks.bis >= 0))

---------------------------------------------------------------------------
(* C13.  When SIMSHeader is decoded and the Anal_param_nano_bis marker was *)
(* not found, read_header goes on to the tail section whatever the         *)
(* analysis version is (and warns 'Anal_param_nano_bis not found in        *)
(* header' from version 5 on); it ends without an exception unless the     *)
(* tail block itself is malformed.                                         *)

BisWarning == "Anal_param_nano_bis not found in header"

C13_MissingBisNonFatal ==
    (Ran("read_header") /\ Has(header, "SIMSHeader") /\ marks.bis < 0) =>
        /\ header["analysis version"] >= 5 =>
               \E i \in 1..Len(warns) : warns[i] = BisWarning
        /\ Len(TailEvents) = 1
        /\ (header["file type"] \in NoTailTypes \/ ImageWellFormed) => HeaderOk

---------------------------------------------------------------------------
(* C14.  When read_header has decoded Detectors in the Anal_param_nano     *)
(* section, the next four bytes, 1824 bytes behind the analysis version,   *)
(* must hold 2306: with any other value read_header ends in ValueError     *)
(* 'SIMSHeader magic number not found here at byte' with the offset of     *)
(* the first of those four bytes, SIMSHeader and what follows it are not   *)
(* decoded; with 2306 that error is not raised.                            *)

IsApnEvent(e) == e.op = "apn"

ApnEvents == SelectSeq(events, IsApnEvent)

\* the offset of the four bytes in front of SIMSHeader
MagicPos == ApnEvents[1].at + MagicAt

MagicError == "SIMSHeader magic number not found here at byte"

\* read_header decoded Detectors and the buffer holds the four bytes behind
MagicRead ==
    /\ Ran("read_header") /\ Has(header, "Detectors") /\ ApnEvents # << >>
    /\ MagicPos + 4 <= HdrLen

C14_MagicNumber ==
    MagicRead =>
        IF I32(bo, Bytes(file, MagicPos, 4)) # SimsHeaderMagic
        THEN /\ pc = "raised"
             /\ exc.type = "ValueError"
             /\ exc.msg = MagicError
             /\ exc.at = MagicPos
             /\ ~Has(header, "SIMSHeader")
             /\ ~Has(header, "Presets")
             /\ TailEvents = << >>
        ELSE exc.msg # MagicError

C14_Witness ==
    /\ MagicRead
    /\ I32(bo, Bytes(file, MagicPos, 4)) = SimsHeaderMagic + 1
    /\ exc.msg = MagicError
    /\ exc.at = marks.apn + 16 + 1824

---------------------------------------------------------------------------
(* C15.  When the stream holds fewer bytes than the header size peek       *)
(* decoded, read_header ends in struct.error (a read past the end of the   *)
(* buffer), stores nothing of the tail section and never comes to the      *)
(* tail section, which is located from the end of the buffer.              *)

Truncated ==
    /\ Ran("read_header") /\ Has(header, "header size")
    /\ header["header size"] >= 0
    /\ file.size < header["header size"]

C15_TruncatedFails ==
    Truncated =>
        /\ ~HeaderOk
        /\ exc = StructError
        /\ TailEvents = << >>
        /\ ~Has(header, "Image") /\ ~Has(header, "Isotopes")

---------------------------------------------------------------------------
(* C16.  When read_header comes to the tail section, the file type alone   *)
(* decides what is decoded, and from where, counted from the end of the    *)
(* header buffer whatever the cursor was: for type 26 the Isotopes block   *)
(* of the last 176 bytes and no Image; for types 21, 22, 31 and 35         *)
(* nothing; for every other type the Image block of the last 84 bytes and  *)
(* no Isotopes, and an Image block whose size field is not 84 ends         *)
(* read_header in ValueError with no Image stored.                         *)

\* the Image record held by the 84 bytes that start at offset p
ImageAt(p) ==
    [width  |-> I16(bo, Bytes(file, p + 6, 2)),
     height |-> I16(bo, Bytes(file, p + 8, 2)),
     bpp    |-> I16(bo, Bytes(file, p + 10, 2)),
     masses |-> I16(bo, Bytes(file, p + 12, 2)),
     planes |-> I16(bo, Bytes(file, p + 14, 2))]

C16_TailByType ==
    TailEvents # << >> =>
        /\ header["file type"] = 26 =>
               /\ ~Has(header, "Image")
               /\ HeaderOk => Has(header, "Isotopes")
               /\ Has(header, "Isotopes") =>
                      header["Isotopes"].ratios = I32(bo, Bytes(file, HdrLen - 176 + 12, 4))
        /\ header["file type"] \in NoTailTypes =>
               /\ ~Has(header, "Image") /\ ~Has(header, "Isotopes")
               /\ HeaderOk
        /\ header["file type"] \notin NoTailTypes \cup {26} =>
               /\ ~Has(header, "Isotopes")
               /\ IF ImageWellFormed
                  THEN /\ HeaderOk
                       /\ Has(header, "Image")
                       /\ header["Image"] = ImageAt(HdrLen - 84)
                  ELSE /\ ~HeaderOk
                       /\ ~Has(header, "Image")
                       /\ HdrLen >= 84 =>
                              /\ exc.type = "ValueError"
                              /\ exc.msg = "Image header size is not 84."

\* an Image block decoded from the end of the buffer, far from the cursor
C16_Witness ==
    /\ TailEvents # << >>
    /\ header["file type"] = 41
    /\ Has(header, "Image")
    /\ header["Image"].width = 2
    /\ TailEvents[1].at < HdrLen - 10000

\* an Isotopes block of two ratios
C16_WitnessIsotopes ==
    /\ TailEvents # << >>
    /\ header["file type"] = 26
    /\ Has(header, "Isotopes")
    /\ header["Isotopes"].ratios = 2

---------------------------------------------------------------------------
(* C17.  After read_data: with 'data included' false it took no byte from  *)
(* the stream, left the stream where read_header left it, stored nothing   *)
(* in data and _data_corr and raised nothing; with the flag true, types 21 *)
(* and 26 store the isotope series (in _data_corr) and nothing else, types *)
(* 31 and 35 store the trace series (in data) and nothing else, type 22    *)
(* stores nothing, reads nothing and warns, and every other type stores    *)
(* the image cube (in data) and nothing else.                              *)

DataRead == LastIs("read_data")

DataOk == DataRead /\ ~LastFailed

\* read_data took no byte: peek took 12 and read_header the header buffer
NothingRead == nread = PeekLen + HdrLen /\ fhpos = HdrLen

LineScanWarning == "No data read for line scan, fix"

LineScanWarned == \E i \in 1..Len(warns) : warns[i] = LineScanWarning

C17_DataDispatch ==
    DataRead =>
        IF ~header["data included"]
        THEN DataOk /\ NothingRead /\ data = NoStored /\ ~LineScanWarned
        ELSE /\ header["file type"] \in {21, 26} =>
                    /\ data.data = NoData
                    /\ DataOk <=> data.corr.kind = "isotope"
             /\ header["file type"] \in {31, 35} =>
                    /\ data.corr = NoData
                    /\ DataOk <=> data.data.kind = "trace"
             /\ header["file type"] = 22 =>
                    /\ DataOk /\ NothingRead /\ data = NoStored
                    /\ LineScanWarned
             /\ header["file type"] \notin {21, 22, 26, 31, 35} =>
                    /\ data.corr = NoData
                    /\ DataOk <=> data.data.kind = "image"

\* a file with data behind the header and the flag not set
C17_Witness ==
    /\ DataRead
    /\ ~header["data included"]
    /\ header["file type"] = 35
    /\ file.size > HdrLen
    /\ data = NoStored

\* the three strategies at work
C17_WitnessTrace == DataOk /\ header["file type"] = 31 /\ data.data.kind = "trace"

C17_WitnessIsotope == DataOk /\ header["file type"] = 26 /\ data.corr.kind = "isotope"

C17_WitnessImage == DataOk /\ header["file type"] = 27 /\ data.data.kind = "image"

---------------------------------------------------------------------------
(* C18.  An image cube stored by read_data has shape [S, P, H, W], the     *)
(* masses, planes, height and width of the Image header; it holds every    *)
(* whole value of the pixel stream behind the header exactly once, and its *)
(* element [s, p, y, x] is value number ((p*S + s)*H + y)*W + x of that    *)
(* stream.                                                                 *)

\* value number k (from 0) of the pixel stream, most significant byte first
RawPixel(k) ==
    Raw(file, bo, header["header size"] + k * header["Image"].bpp, header["Image"].bpp)

\* element [s, p, y, x] of a cube stored row-major with shape [S, P, H, W]
Element(cube, s, p, y, x) ==
    cube.vals[((s * cube.shape[2] + p) * cube.shape[3] + y) * cube.shape[4] + x + 1]

C18_ImageCube ==
    (DataRead /\ data.data.kind = "image") =>
        /\ data.data.shape = <<header["Image"].masses, header["Image"].planes,
                               header["Image"].height, header["Image"].width>>
        /\ Len(data.data.vals) =
               (file.size - header["header size"]) \div header["Image"].bpp
        /\ Len(data.data.vals) = header["Image"].masses * header["Image"].planes
                                 * header["Image"].height * header["Image"].width
        /\ \A s \in 0..(header["Image"].masses - 1), p \in 0..(header["Image"].planes - 1),
              y \in 0..(header["Image"].height - 1), x \in 0..(header["Image"].width - 1) :
               Element(data.data, s, p, y, x) =
                   RawPixel(((p * header["Image"].masses + s) * header["Image"].height + y)
                            * header["Image"].width + x)

\* two planes of two species: element [1, 0, 0, 0] is raw value number 4,
\* which the file holds as 5
C18_Witness ==
    /\ DataRead /\ data.data.kind = "image"
    /\ data.data.shape = <<2, 2, 2, 2>>
    /\ Element(data.data, 1, 0, 0, 0) = <<0, 5>>
    /\ Element(data.data, 0, 1, 0, 0) = <<0, 9>>

---------------------------------------------------------------------------
(* C19.  A trace series stored by read_data has one row per trace of the   *)
(* stream, every row as long as the longest trace; a row starts with the   *)
(* values read for its own trace in their order, and every entry behind    *)
(* them is the zero float64.                                               *)

\* the number of traces the stream declares behind the header
TraceCount == I32(bo, Bytes(file, HdrLen, 4))

\* where block b of the stream starts, and how many points it declares
RECURSIVE TraceStart(_)
TraceStart(b) ==
    IF b <= 1 THEN HdrLen + 4
    ELSE TraceStart(b - 1) + 4 + 16 * I32(bo, Bytes(file, TraceStart(b - 1), 4))

TraceLen(b) == I32(bo, Bytes(file, TraceStart(b), 4))

\* value i of trace b: the points x values come first, then the y values
TraceValue(b, i) == Raw(file, bo, TraceStart(b) + 4 + 8 * (TraceLen(b) + i - 1), 8)

\* value i of trace b as np.fromfile delivered it: behind a decompressing
\* stream it comes from the compressed file
TraceRead(b, i) ==
    IF StreamKind(filename) = "decomp" THEN Compressed ELSE TraceValue(b, i)

LongestTrace == SetMax({TraceLen(b) : b \in 1..TraceCount})

C19_TracePadding ==
    (DataRead /\ data.data.kind = "trace") =>
        /\ Len(data.data.vals) = TraceCount
        /\ \A b \in 1..TraceCount :
               /\ Len(data.data.vals[b]) = LongestTrace
               /\ \A i \in 1..LongestTrace :
                      data.data.vals[b][i] =
                          IF i <= TraceLen(b) THEN TraceRead(b, i) ELSE Zeros(8)

\* a trace of one point in front of a trace of two
C19_Witness ==
    /\ DataRead /\ data.data.kind = "trace"
    /\ TraceCount = 2
    /\ TraceLen(1) = 1 /\ TraceLen(2) = 2
    /\ Len(data.data.vals[1]) = 2
    /\ data.data.vals[1][1] # Zeros(8)
    /\ data.data.vals[1][2] = Zeros(8)

---------------------------------------------------------------------------
(* C20.  Every trolley of every BField in the header carries the 'real     *)
(* trolley' flag and the 'cameca trolley index' of its record in the file, *)
(* and its 'trolley enabled' is true exactly when it is real and its index *)
(* is 0 or more: a real trolley of index -1 is not enabled, and a trolley  *)
(* that is not real is not enabled whatever its index.                     *)

IsBFieldEvent(e) == e.op = "bfield"

BFieldEvents == SelectSeq(events, IsBFieldEvent)

\* where the record of trolley t (from 1) of BField k starts in the file
TrolleyPos(k, t) ==
    BFieldEvents[k].at + 56 + (t - 1) * (IF header["file version"] >= 4108 THEN 208 ELSE 192)

TrolleysDecoded == Ran("read_header") /\ Has(header, "BFields")

C20_TrolleyEnabled ==
    TrolleysDecoded =>
        \A k \in 1..Len(header["BFields"]) :
            /\ Len(header["BFields"][k].Trolleys) = 12
            /\ \A t \in 1..12 :
                   /\ header["BFields"][k].Trolleys[t].real
                          = (I32(bo, Bytes(file, TrolleyPos(k, t) + 96, 4)) # 0)
                   /\ header["BFields"][k].Trolleys[t].index
                          = I32(bo, Bytes(file, TrolleyPos(k, t) + 100, 4))
                   /\ header["BFields"][k].Trolleys[t].enabled
                          = (/\ header["BFields"][k].Trolleys[t].real
                             /\ header["BFields"][k].Trolleys[t].index >= 0)

\* a real trolley of index -1 in the first BField, a real trolley of index 3
\* at the end of the second
C20_Witness ==
    /\ TrolleysDecoded
    /\ Len(header["BFields"]) = 2
    /\ header["BFields"][1].Trolleys[1] = [real |-> TRUE, index |-> -1, enabled |-> FALSE]
    /\ header["BFields"][2].Trolleys[12] = [real |-> TRUE, index |-> 3, enabled |-> TRUE]

----------------------------------------------------------------------------
(* Presets.                                                                *)

IsPresetEvent(e) == e.op = "preset"

IsPresetEnd(e) == e.op = "presetend"

\* the starts and parameter counts of the presets read, and the cursors
\* _preset left
PresetEvents == SelectSeq(events, IsPresetEvent)

PresetEnds == SelectSeq(events, IsPresetEnd)

\* the four presets of the header in file order
PresetsRead ==
    <<header["Presets"].Presputter.Slits, header["Presets"].Presputter.Lenses,
      header["Presets"].Measure.Slits, header["Presets"].Measure.Lenses>>

PresetSize(k) == IF k \in {1, 3} THEN SlitSize ELSE LensSize

PresetsDecoded == Ran("read_header") /\ Has(header, "Presets")

(* C21. _preset parses the first `parameters` 28-byte entries behind the
   520-byte head, leaves the cursor 1080 bytes (slit) or 3640 bytes (lens)
   behind the start of the block for every parameter count, and the preset
   it returns holds one value per parsed entry. *)
C21_PresetEntries ==
    PresetsDecoded =>
        \A k \in 1..4 :
            /\ PresetEnds[k].at = PresetEvents[k].at + PresetSize(k)
            /\ PresetsRead[k][KeyParameters] = PresetEvents[k].n
            /\ Cardinality(DOMAIN PresetsRead[k] \ PresetHeadKeys)
                   = Max(0, PresetEvents[k].n)

----------------------------------------------------------------------------
(* The mass table.                                                         *)

\* the label of channel i (from 1) of the mass table as written in the file:
\* 'SE' for trolley index 8
ChannelLabel(i) ==
    IF I32(bo, Bytes(file, events[1].at
                           - (header["masses"] - i + 1) * MassEntryLen(header["file type"]), 4)) = 8
    THEN StrSE
    ELSE CleanupString(Bytes(file, events[1].at
                           - (header["masses"] - i + 1) * MassEntryLen(header["file type"])
                           + (IF header["file type"] = 31 THEN 68 ELSE 48) + 17, 64))

(* C22. After MainHeader decoding the MassTable holds exactly N entries, N
   being the 'masses' field, one per decoded channel in file order, and the
   label list and the mass list both have length N. *)
C22_MassTableEntries ==
    MainDone =>
        /\ Len(header["MassTable"]) = header["masses"]
        /\ Len(header["label list"]) = header["masses"]
        /\ Len(header["mass list"]) = header["masses"]
        /\ \A i \in 1..Len(header["label list"]) :
               header["label list"][i] = ChannelLabel(i)

----------------------------------------------------------------------------
(* The stream provider.                                                    *)

\* the decode of the same bytes presented by a plain file
PlainPeek == Peek(file, EmptyDict)

PlainHeader == ReadHeader(file, "file", PlainPeek.h, PlainPeek.bo)

PlainData ==
    ReadData(file, "file", PlainHeader.h, PlainPeek.bo, PlainHeader.pos)

\* what SIMS(filename) ends with on a plain file of these bytes
PlainDecode ==
    IF PlainPeek.exc # NoExc
    THEN [h |-> PlainPeek.h, data |-> NoStored, exc |-> PlainPeek.exc]
    ELSE IF PlainHeader.exc # NoExc
    THEN [h |-> PlainHeader.h, data |-> NoStored, exc |-> PlainHeader.exc]
    ELSE [h |-> PlainHeader.h,
          data |-> [data |-> PlainData.data, corr |-> PlainData.corr],
          exc |-> PlainData.exc]

Finished == pc \in {"done", "raised"} /\ filename # NoName

(* C23. Decoding depends only on the bytes the stream provider presents: a
   decode of a plain file and a decode of its gzip, bzip2, xz, zip or tar
   copy give equal headers and equal data arrays. *)
C23_ProviderIndependent ==
    Finished =>
        /\ header = PlainDecode.h
        /\ data = PlainDecode.data
        /\ exc = PlainDecode.exc

----------------------------------------------------------------------------
(* copy().                                                                 *)

\* the header and the data the copy's references point at
CopyHeader == IF clone.obj.header.ref = "self" THEN header ELSE clone.obj.header.val

CopyData == IF clone.obj.data.ref = "self" THEN data ELSE clone.obj.data.val

\* the copy is as copy() returned it
CopyFresh == clone.made /\ clone.edits = 0

\* the original is as it was when it was copied
OriginalKept ==
    /\ header = clone.orig.header
    /\ data = clone.orig.data
    /\ fh = clone.orig.fh

(* C24. copy() returns a deep copy: the copy's header and data equal the
   original's, its fh and fh_archive are None, and a later change of the
   copy's header or data leaves the original's header, data and file
   handle unchanged.  Stated for every object copy() is called on. *)
C24_CopyHandlesNone ==
    clone.made =>
        /\ clone.obj.fh = "None"
        /\ clone.obj.fh_archive = "None"
        /\ CopyFresh => (CopyHeader = header /\ CopyData = data)
        /\ OriginalKept

(* C24, amended. The same for an object whose constructor opened a file;
   the copy of an object built from an empty file name has, like the
   original, no attribute at all. *)
C24_DeepCopy ==
    clone.made =>
        /\ clone.obj.attrs # {} =>
               /\ clone.obj.fh = "None"
               /\ clone.obj.fh_archive = "None"
               /\ clone.obj.header.ref # "none" /\ clone.obj.data.ref # "none"
        /\ clone.obj.attrs = {} =>
               /\ clone.obj.fh = "unset"
               /\ clone.obj.fh_archive = "unset"
        /\ CopyFresh => (CopyHeader = header /\ CopyData = data)
        /\ OriginalKept

\* the header and the data of a copy of a decoded image were changed
C24_Witness ==
    /\ clone.made
    /\ clone.edits = MaxEdits
    /\ clone.orig.data.data.kind = "image"
    /\ fh = "closed"
    /\ (CopyHeader # header \/ CopyData # data)

----------------------------------------------------------------------------
(* sims.utils.em_correct on a finished object.  The data of a species is   *)
(* kept as the sequence of the corrections applied to it.                  *)

\* the corrections, in the order a species is taken through them
Corrections == <<"background", "yield", "deadtime">>

\* the flags read_header sets in every MassTable record (sims.py, lines
\* 554-556)
NoFlags == [c \in {"background", "yield", "deadtime"} |-> FALSE]

\* the species of the MassTable, in its order
SpeciesList == <<"A", "B">>

SpeciesSet == {SpeciesList[i] : i \in 1..Len(SpeciesList)}

\* a correction factor: where it comes from and whether it is a float
FromHeader(c) == [v |-> "header", float |-> c # "background"]

Given(n) == [v |-> n, float |-> FALSE]

\* lines 463-475: the species whose trolley is enabled and records with an
\* EM, with the factors of the header; 'baseline' takes the background of a
\* trolley used for the baseline.  A MassTable record as read_header leaves
\* it has no 'b field index': KeyError at line 465
RECURSIVE EMsFrom(_, _, _)
EMsFrom(o, background, i) ==
    IF i > Len(SpeciesList) THEN << >>
    ELSE IF o.tr[SpeciesList[i]].enabled /\ o.tr[SpeciesList[i]].detector = "EM"
    THEN <<[spc |-> SpeciesList[i],
            deadtime |-> FromHeader("deadtime"),
            yield |-> FromHeader("yield"),
            background |-> IF background = "baseline" /\ o.tr[SpeciesList[i]].baseline
                           THEN [v |-> "baseline", float |-> FALSE]
                           ELSE FromHeader("background")]>>
         \o EMsFrom(o, background, i + 1)
    ELSE EMsFrom(o, background, i + 1)

EMSpecies(ems) == {ems[i].spc : i \in 1..Len(ems)}

\* lines 478-484: a species asked for that is not in EMs is a KeyError; a
\* species of EMs not asked for is popped while EMs is iterated over, a
\* RuntimeError
SpeciesFilter(ems, species) ==
    IF species = << >> THEN NoExc
    ELSE IF \E i \in 1..Len(species) : species[i] \notin EMSpecies(ems)
    THEN Exc("KeyError", "not in data or not using an EM")
    ELSE IF \E s \in EMSpecies(ems) : \A i \in 1..Len(species) : species[i] # s
    THEN Exc("RuntimeError", "dictionary changed size during iteration")
    ELSE NoExc

\* lines 486-539 for one of deadtime, emyield, background: the argument is
\* "None", a number, a dict [spc, v], or something else
OverrideError(ems, c, arg) ==
    IF arg.kind \in {"None", "number"} THEN NoExc
    ELSE IF arg.kind = "dict"
    THEN IF arg.spc \in EMSpecies(ems) THEN NoExc ELSE Exc("KeyError", arg.spc)
    ELSE IF c = "background" /\ arg.kind = "baseline" THEN NoExc
    ELSE Exc("TypeError", "value not understood")

Override(ems, c, arg) ==
    [i \in 1..Len(ems) |->
        IF arg.kind = "number" \/ (arg.kind = "dict" /\ arg.spc = ems[i].spc)
        THEN [ems[i] EXCEPT ![c] = Given(arg.v)]
        ELSE ems[i]]

\* whether the in-place operation of correction c by factor val works on
\* data of the given dtype: an integer array takes no float result
Applies(dtype, c, val) ==
    dtype = "float" \/ (dtype = "int" /\ c # "deadtime" /\ ~val.float)

\* a variant of a correction step that does not look at the flag
StepUnguarded(o, spc, c, val) ==
    IF o.exc # NoExc THEN o
    ELSE IF o.dtype = "None"
    THEN [o EXCEPT !.exc = Exc("AttributeError", "'NoneType' object has no attribute 'loc'")]
    ELSE IF ~Applies(o.dtype, c, val)
    THEN [o EXCEPT !.exc = Exc("TypeError", "Cannot cast ufunc output")]
    ELSE [o EXCEPT !.data[spc] = Append(@, [op |-> c, by |-> val.v]),
                   !.mt[spc][c] = TRUE]

\* one correction step (lines 542-544, 545-547, 548-550): it runs only
\* while the flag of the species is False, and sets it
Step(o, spc, c, val) ==
    IF o.exc # NoExc \/ o.mt[spc][c] THEN o ELSE StepUnguarded(o, spc, c, val)

\* lines 541-550: the species of EMs in order, each through the three steps
RECURSIVE CorrectLoop(_, _, _)
CorrectLoop(o, ems, i) ==
    IF i > Len(ems) THEN o
    ELSE CorrectLoop(
             Step(Step(Step(o, ems[i].spc, "background", ems[i].background),
                       ems[i].spc, "yield", ems[i].yield),
                  ems[i].spc, "deadtime", ems[i].deadtime),
             ems, i + 1)

\* the first exception of a sequence
FirstExc(es) ==
    IF \A i \in 1..Len(es) : es[i] = NoExc THEN NoExc
    ELSE es[CHOOSE i \in 1..Len(es) : es[i] # NoExc /\ \A j \in 1..(i - 1) : es[j] = NoExc]

\* what comes in front of the correction loop, on the EMs of the header
EmArguments(ems, a) ==
    FirstExc(<<SpeciesFilter(ems, a.species),
               OverrideError(ems, "deadtime", a.deadtime),
               OverrideError(ems, "yield", a.emyield),
               OverrideError(ems, "background", a.background)>>)

\* sims.utils.em_correct(simsobj, species, deadtime, emyield, background)
EmCorrect(o, a) ==
    IF ~o.indexed /\ SpeciesList # << >>
    THEN [o EXCEPT !.exc = Exc("KeyError", "b field index")]
    ELSE IF EmArguments(EMsFrom(o, a.background.kind, 1), a) # NoExc
    THEN [o EXCEPT !.exc = EmArguments(EMsFrom(o, a.background.kind, 1), a)]
    ELSE CorrectLoop([o EXCEPT !.exc = NoExc],
                     Override(Override(Override(EMsFrom(o, a.background.kind, 1),
                                                "deadtime", a.deadtime),
                                       "yield", a.emyield),
                              "background", a.background),
                     1)

\* the arguments of a call
ArgNone == [kind |-> "None", v |-> 0, spc |-> ""]

DefaultArgs ==
    [species |-> << >>, deadtime |-> ArgNone, emyield |-> ArgNone, background |-> ArgNone]

CallArgs ==
    {DefaultArgs,
     [DefaultArgs EXCEPT !.species = <<"A">>],
     [DefaultArgs EXCEPT !.species = <<"A", "B">>],
     [DefaultArgs EXCEPT !.deadtime = [kind |-> "number", v |-> 1, spc |-> ""]],
     [DefaultArgs EXCEPT !.emyield = [kind |-> "number", v |-> 1, spc |-> ""]],
     [DefaultArgs EXCEPT !.emyield = [kind |-> "list", v |-> 0, spc |-> ""]],
     [DefaultArgs EXCEPT !.background = [kind |-> "number", v |-> 1, spc |-> ""]],
     [DefaultArgs EXCEPT !.background = [kind |-> "baseline", v |-> 0, spc |-> ""]],
     [DefaultArgs EXCEPT !.background = [kind |-> "dict", v |-> 2, spc |-> "B"]],
     [DefaultArgs EXCEPT !.deadtime = [kind |-> "dict", v |-> 2, spc |-> "X"]]}

\* the trolleys a MassTable record may point at
TrolleyKinds ==
    {[enabled |-> TRUE, detector |-> "EM", baseline |-> FALSE],
     [enabled |-> TRUE, detector |-> "EM", baseline |-> TRUE],
     [enabled |-> TRUE, detector |-> "FC", baseline |-> FALSE],
     [enabled |-> FALSE, detector |-> "EM", baseline |-> FALSE]}

\* the objects handed to em_correct: as decoded, with every flag False and
\* the data untouched; the MassTable records as read_header leaves them
\* (indexed = FALSE) or with the 'b field index' the caller added
Objects ==
    {[made |-> TRUE, indexed |-> ix, dtype |-> dt, tr |-> tr,
      mt |-> [s \in SpeciesSet |-> NoFlags],
      data |-> [s \in SpeciesSet |-> << >>],
      exc |-> NoExc, calls |-> 0, args |-> << >>,
      before |-> [mt |-> [s \in SpeciesSet |-> NoFlags],
                  data |-> [s \in SpeciesSet |-> << >>], args |-> << >>]] :
        ix \in BOOLEAN, dt \in {"int", "float", "None"},
        tr \in [SpeciesSet -> TrolleyKinds]}

\* no SIMS object is under construction
NoSIMS ==
    /\ filename = NoName
    /\ file = [size |-> 0, items |-> << >>]
    /\ pc = "new"
    /\ fh = "unset"
    /\ fh_archive = "unset"
    /\ fhpos = 0
    /\ nread = 0
    /\ header = EmptyDict
    /\ hdrBefore = EmptyDict
    /\ bo = ""
    /\ data = NoStored
    /\ exc = NoExc
    /\ stages = << >>
    /\ marks = NoMarks
    /\ events = << >>
    /\ warns = << >>

SIMSVars == <<filename, file, pc, fh, fh_archive, fhpos, nread, header, hdrBefore,
              bo, data, exc, stages, marks, events, warns>>

CorrectInit ==
    /\ NoSIMS
    /\ emobj \in Objects
    /\ clone = NoCopy
    /\ rkstate = NoCalls

\* a call of em_correct; before keeps the flags, the data and the arguments
\* of the call in front of it
Em_correct ==
    /\ emobj.made
    /\ emobj.calls < MaxCalls
    /\ \E a \in CallArgs :
           emobj' = [EmCorrect(emobj, a) EXCEPT
                        !.calls = emobj.calls + 1,
                        !.args = <<a>>,
                        !.before = [mt |-> emobj.mt, data |-> emobj.data,
                                    args |-> emobj.args]]
    /\ UNCHANGED <<SIMSVars, clone, rkstate>>

CorrectNext == Em_correct

CorrectSpec == CorrectInit /\ [][CorrectNext]_vars

----------------------------------------------------------------------------
(* sims.rkeys: the recursive key listings.  A dictionary is the sequence   *)
(* of its items in insertion order, [key, isdict, items]; a key is a       *)
(* one-character string.  The default argument path=[] of rkeys and of     *)
(* rkeys_path is one list object each, made when the def statement runs.   *)

Keys == {"a", "b"}

\* the code point of a character
Ord(c) == IF c = "/" THEN 47 ELSE IF c = "a" THEN 97 ELSE 98

DictItem(k, v) == [key |-> k, isdict |-> v.isdict, items |-> v.items]

Leaf == [isdict |-> FALSE, items |-> << >>]

DictOf(items) == [isdict |-> TRUE, items |-> items]

\* the dictionaries over Keys with values from vals
DictsOver(vals) ==
    {DictOf(<< >>)}
    \cup {DictOf(<<DictItem(k, v)>>) : k \in Keys, v \in vals}
    \cup {DictOf(<<DictItem(kl[1], v), DictItem(kl[2], w)>>) :
              kl \in {x \in Keys \X Keys : x[1] # x[2]}, v \in vals, w \in vals}

\* the arguments of the calls: dictionaries nested up to two deep
Dicts == DictsOver({Leaf} \cup DictsOver({Leaf}))

\* the comparison of two lists, or of two strings: element by element
RECURSIVE Before(_, _)
Before(s, t) ==
    IF s = << >> THEN t # << >>
    ELSE IF t = << >> THEN FALSE
    ELSE IF Ord(Head(s)) # Ord(Head(t)) THEN Ord(Head(s)) < Ord(Head(t))
    ELSE Before(Tail(s), Tail(t))

\* sorted(list): Insert puts x behind the elements not greater than it
RECURSIVE Insert(_, _)
Insert(sorted, x) ==
    IF sorted = << >> THEN <<x>>
    ELSE IF Before(x, Head(sorted)) THEN <<x>> \o sorted
    ELSE <<Head(sorted)>> \o Insert(Tail(sorted), x)

RECURSIVE SortedList(_, _)
SortedList(list, acc) ==
    IF list = << >> THEN acc ELSE SortedList(Tail(list), Insert(acc, Head(list)))

\* the loop of rkeys over the items of a dictionary (lines 19-25): the list
\* object path after it; the value a nested call returns is dropped
RECURSIVE Rkeys(_, _, _)
Rkeys(items, root, path) ==
    IF items = << >> THEN path
    ELSE Rkeys(Tail(items), root,
               IF Head(items).isdict
               THEN Rkeys(Head(items).items, root \o <<Head(items).key>>,
                          Append(path, root \o <<Head(items).key>>))
               ELSE Append(path, root \o <<Head(items).key>>))

\* sep.join((root, key)), or key for an empty root (lines 41-44)
JoinPath(root, key, sep) ==
    IF root # << >> THEN root \o sep \o <<key>> ELSE <<key>>

\* the loop of rkeys_path (lines 41-48); the nested call takes the default sep
RECURSIVE RkeysPath(_, _, _, _)
RkeysPath(items, root, path, sep) ==
    IF items = << >> THEN path
    ELSE RkeysPath(Tail(items), root,
                   IF Head(items).isdict
                   THEN RkeysPath(Head(items).items,
                                  JoinPath(root, Head(items).key, sep),
                                  Append(path, JoinPath(root, Head(items).key, sep)),
                                  <<"/">>)
                   ELSE Append(path, JoinPath(root, Head(items).key, sep)),
                   sep)

\* a call made: the function, and the list it returned
Call(fn, path) == [fn |-> fn, out |-> SortedList(path, << >>)]

\* the module is imported, and the program holds a dictionary d
RkeysInit ==
    /\ NoSIMS
    /\ clone = NoCopy
    /\ emobj = NoObject
    /\ \E d \in Dicts :
           rkstate = [made |-> TRUE, d |-> d, path |-> << >>, ppath |-> << >>,
                      calls |-> << >>]

\* rkeys(d): root and path are the defaults
Rkeys_call ==
    /\ rkstate.made
    /\ Len(rkstate.calls) < MaxWalks
    /\ rkstate' = [rkstate EXCEPT
                      !.path = Rkeys(rkstate.d.items, << >>, rkstate.path),
                      !.calls = Append(rkstate.calls,
                                       Call("rkeys", Rkeys(rkstate.d.items, << >>,
                                                           rkstate.path)))]
    /\ UNCHANGED <<SIMSVars, clone, emobj>>

\* rkeys_path(d): root, path and sep are the defaults
RkeysPath_call ==
    /\ rkstate.made
    /\ Len(rkstate.calls) < MaxWalks
    /\ rkstate' = [rkstate EXCEPT
                      !.ppath = RkeysPath(rkstate.d.items, << >>, rkstate.ppath,
                                          <<"/">>),
                      !.calls = Append(rkstate.calls,
                                       Call("rkeys_path",
                                            RkeysPath(rkstate.d.items, << >>,
                                                      rkstate.ppath, <<"/">>)))]
    /\ UNCHANGED <<SIMSVars, clone, emobj>>

RkeysNext ==
    \/ Rkeys_call
    \/ RkeysPath_call

RkeysSpec == RkeysInit /\ [][RkeysNext]_vars

----------------------------------------------------------------------------
(* em_correct.                                                             *)

\* how often correction c is in the data of species s
Applied(s, c) ==
    Cardinality({i \in 1..Len(emobj.data[s]) : emobj.data[s][i].op = c})

\* the call made last had the arguments of the call in front of it
Repeated == emobj.calls >= 2 /\ emobj.args = emobj.before.args

(* C25. Across any sequence of em_correct calls on one object each of the
   background, yield and deadtime corrections is applied to the data of a
   species at most once: a step runs only while the flag of the species is
   False and sets it, a second identical call leaves data and flags
   unchanged, and no flag is ever reset. *)
C25_CorrectedOnce ==
    emobj.made =>
        /\ \A s \in SpeciesSet : \A c \in DOMAIN NoFlags :
               /\ Applied(s, c) <= 1
               /\ emobj.mt[s][c] = (Applied(s, c) = 1)
               /\ emobj.before.mt[s][c] => emobj.mt[s][c]
               /\ emobj.before.mt[s][c] => Applied(s, c) = 1
        /\ Repeated => (emobj.mt = emobj.before.mt /\ emobj.data = emobj.before.data)

\* both species were corrected in full by a first call, and a second call
\* with the same arguments went through
C25_Witness ==
    /\ emobj.made
    /\ Repeated
    /\ emobj.exc = NoExc
    /\ \A s \in SpeciesSet : \A c \in DOMAIN NoFlags : emobj.mt[s][c]
    /\ \A s \in SpeciesSet : Len(emobj.data[s]) = 3

----------------------------------------------------------------------------
(* File types.                                                             *)

\* peek accepted the file
PeekAccepted == stages # << >> /\ stages[1].name = "peek" /\ stages[1].ok

\* _main_header found no layout for the file type (line 492)
NoLayout == exc.type = "TypeError" /\ exc.msg = "What type of image are you?"

(* C26. Every file type that peek accepts has a MainHeader layout: for each
   code of the supported set _main_header selects one of its layouts, and
   read_header never rejects a file on its type code once peek has accepted
   it. *)
C26_SupportedTypeHasLayout ==
    (PeekAccepted /\ Ran("read_header")) =>
        /\ header["file type"] \in SupportedFileTypes
        /\ ~NoLayout

----------------------------------------------------------------------------
(* The exit slit XL splice.                                                *)

IsBisEvent(e) == e.op = "bis"

\* the splice ran: Detectors 6 and 7 were read behind the bis marker
Spliced ==
    /\ Ran("read_header")
    /\ Has(header, "exit slits xl")
    /\ SelectSeq(events, IsBisEvent) # << >>

\* value i (from 1) of the XL array as it stands in the file
XLValue(i) ==
    I32(bo, Bytes(file, SelectSeq(events, IsBisEvent)[1].at + 208 + 4 * (i - 1), 4))

\* the fourteen slices: the XL width row and the XL height row of Detector
\* 1 to 7
XLSlices ==
    [j \in 1..14 |->
        IF j <= 7 THEN header["exit slits xl"][j].widths
        ELSE header["exit slits xl"][j - 7].heights]

Values(row) == {row[i] : i \in 1..Len(row)}

(* C27. The exit-slit-XL splice partitions the 70-value XL array among the
   seven detectors: each of Detector 1 to 7 receives a 5-value XL width row
   and a 5-value XL height row, the fourteen slices are pairwise disjoint
   and together cover all 70 values, and afterwards 'exit slit xl' is no
   longer a key of Detectors.  The files carry 70 distinct values. *)
C27_XLPartition ==
    Spliced =>
        /\ \A j \in 1..14 : Len(XLSlices[j]) = 5
        /\ \A j \in 1..14 : \A k \in 1..14 :
               j # k => Values(XLSlices[j]) \cap Values(XLSlices[k]) = {}
        /\ UNION {Values(XLSlices[j]) : j \in 1..14} = {XLValue(i) : i \in 1..70}
        /\ "exit slit xl" \notin header["Detectors"]

----------------------------------------------------------------------------
(* The presets block.                                                      *)

IsPresetsEvent(e) == e.op = "presets"

\* the runs of _presets that returned: where each started and ended
PresetsEvents == SelectSeq(events, IsPresetsEvent)

\* the padding blocks skipped in front of the first group, in front of the
\* second group, and behind the last preset
PaddingUpFront ==
    (PresetEvents[1].at - PresetsEvents[1].at) \div SlitSize
    + (PresetEvents[3].at - PresetEnds[2].at) \div SlitSize

PaddingAtEnd == (PresetsEvents[1].n - PresetEnds[4].at) \div SlitSize

(* C28. _presets advances the cursor by exactly 11,600 bytes from where it
   starts, for every outcome of the two padding lookaheads and every
   parameter count of the four presets: the padding blocks skipped up front
   plus those skipped at the end are always 2. *)
C28_PresetsLength ==
    PresetsEvents # << >> =>
        /\ Len(PresetsEvents) = 1
        /\ PresetsEvents[1].n = PresetsEvents[1].at + 11600
        /\ Len(PresetEvents) = 4 /\ Len(PresetEnds) = 4
        /\ PaddingUpFront + PaddingAtEnd = 2
        /\ PresetEvents[1].at \in {PresetsEvents[1].at, PresetsEvents[1].at + SlitSize}
        /\ PresetEvents[3].at \in {PresetEnds[2].at, PresetEnds[2].at + SlitSize}

\* a path at the start of both groups, so that both padding blocks are
\* skipped at the end, and a preset whose parameters overrun its block
C28_Witness ==
    /\ PresetsEvents # << >>
    /\ PaddingUpFront = 0
    /\ PaddingAtEnd = 2
    /\ PresetEvents[1].n = 25

\* one padding block in front of the second group only
C28_WitnessMiddle ==
    /\ PresetsEvents # << >>
    /\ PresetEvents[1].at = PresetsEvents[1].at
    /\ PresetEvents[3].at = PresetEnds[2].at + SlitSize
    /\ PaddingAtEnd = 1

----------------------------------------------------------------------------
(* Repeated read_data.                                                     *)

\* what read_data decodes when it starts at offset header size
FromHeaderSize ==
    ReadData(file, StreamKind(filename), header, bo, header["header size"])

\* the last call of the caller was a read_data of a file with data
DataJustRead ==
    /\ LastIs("read_data")
    /\ header["data included"]
    /\ header["file type"] # 22

(* C29. Every data-plane strategy starts reading at absolute offset header
   size, wherever the stream stands when read_data is called; hence a
   second read_data, or a read_data after other reads on the stream,
   decodes the same data as the first.  This holds for the image cube, the
   isotope series and the trace series alike. *)
C29_ReadFromHeaderSize ==
    DataJustRead =>
        /\ exc = FromHeaderSize.exc
        /\ exc = NoExc =>
               data = [data |-> FromHeaderSize.data, corr |-> FromHeaderSize.corr]

----------------------------------------------------------------------------
(* The key listings.                                                       *)

\* the nested key paths of d as lists of keys, and as joined strings
KeyPaths(d) == Rkeys(d.items, << >>, << >>)

KeyStrings(d) == RkeysPath(d.items, << >>, << >>, <<"/">>)

\* what call c should have returned for d
Listing(c, d) ==
    SortedList(IF c.fn = "rkeys" THEN KeyPaths(d) ELSE KeyStrings(d), << >>)

(* C30. rkeys(d) returns exactly the sorted list of all nested key paths of
   d on every call, independent of any earlier call: two calls in a row
   with default arguments return the same list, with no path of an earlier
   call carried over; the same holds for rkeys_path. *)
C30_RkeysFresh ==
    rkstate.made =>
        \A i \in 1..Len(rkstate.calls) :
            rkstate.calls[i].out = Listing(rkstate.calls[i], rkstate.d)

====
